---- MODULE Spec2Model ----
(***************************************************************************)
(* Command execution engine of the peace automation framework.             *)
(*                                                                         *)
(* A CmdExecution is an ordered queue of CmdBlocks.  CmdExecution::exec    *)
(* folds over the blocks; every block is run through CmdBlockWrapper::exec *)
(* (input_fetch, the block's exec, outcome_insert), and outcome_extract    *)
(* turns the result of the fold into the CmdOutcome that is returned.      *)
(* Item-wise blocks stream the items of the flow's graph through           *)
(* ApplyExecCmdBlock::item_apply_exec; the outcomes sent on outcomes_tx    *)
(* are collated by ApplyExecCmdBlock::outcome_collate.                     *)
(*                                                                         *)
(* The graph traversal (fn_graph's try_for_each_concurrent_with) is not    *)
(* part of the sources: its scheduling is modelled from the design text.   *)
(* What the traversal does once an item future has returned Err(()) is     *)
(* not decided by the sources ("we should stop processing" next to the     *)
(* Err(()) of item_apply_exec, "siblings continue" in the design text), so *)
(* both outcomes are admitted: the queuer may or may not be closed.        *)
(*                                                                         *)
(* ApplyCmd (cmds/sub/apply_cmd.rs), the command written on CmdBase with   *)
(* its stored-state sync checks, is a second specification, SpecApplyCmd.  *)
(***************************************************************************)
EXTENDS Integers, Sequences, FiniteSets, TLC

\* ------------------------------------------------------------------ bounds
NumItems == 3

Items == 1..NumItems

\* ------------------------------------------------------------- item graph
\* Flow graphs the commands are run over; an edge <<a, b>> makes a a
\* predecessor of b. The fork is a join for the traversals in reverse; the
\* pair is an item with no edges beside a chain of the other items.
GraphChain == {<<i, i + 1>> : i \in 1..(NumItems - 1)}
GraphFork == {<<1, j>> : j \in 2..NumItems}
GraphPair == {<<i, i + 1>> : i \in 2..(NumItems - 1)}

Graphs == {GraphChain, GraphFork, GraphPair}

Predecessors(g, i) == {p \in Items : <<p, i>> \in g}
Successors(g, i) == {s \in Items : <<i, s>> \in g}

\* Upper limit of item futures in flight.
BUFFERED_FUTURES_MAX == 10

\* ------------------------------------------------------------ cmd blocks
ApplyStoredStateSyncs == {"None", "Current", "Goal", "Both"}

\* StatesTsApplyExt: apply_for, dry_run and the target states of a StatesTs.
StatesTsApplyFor(ts) == IF ts \in {"Ensured", "EnsuredDry"} THEN "Ensure" ELSE "Clean"
StatesTsDryRun(ts) == ts \in {"EnsuredDry", "CleanedDry"}
StatesTsTarget(ts) == IF ts \in {"Ensured", "EnsuredDry"} THEN "StatesGoal" ELSE "StatesClean"
StatesTsName(ts) == "States" \o ts

ApplyExecName(ts) == "ApplyExecCmdBlock" \o ts

\* ApplyExecCmdBlock: input_fetch removes StatesCurrent, then the target
\* states; outcome_insert inserts the previous, applied and target states.
ApplyExecInput(ts) == <<"StatesCurrent", StatesTsTarget(ts)>>
ApplyExecOutcome(ts) == {"StatesPrevious", StatesTsName(ts), StatesTsTarget(ts)}

StatesTss == {"Ensured", "EnsuredDry", "Cleaned", "CleanedDry"}

\* Blocks: kind (Single / ItemWise outcome), the resources input_fetch
\* removes (in order), the resources outcome_insert inserts, for item-wise
\* blocks the item function and the StatesTs of an apply block.

\* ApplyExecCmdBlock<StatesTs>.
ApplyExecDesc(ts) ==
  [kind |-> "ItemWise", input |-> ApplyExecInput(ts),
   outcome |-> ApplyExecOutcome(ts), itemFn |-> "apply", ts |-> ts]

\* StatesGoalReadCmdBlock: no input, a Single outcome.
StatesGoalReadDesc ==
  [kind |-> "Single", input |-> <<>>, outcome |-> {"StatesGoalStored"},
   itemFn |-> "none", ts |-> "none"]

\* The blocks whose sources are not at hand, from their descriptions.
OtherBlockDesc(b) ==
  CASE b = "StatesCurrentReadCmdBlock" ->
         [kind |-> "Single", input |-> <<>>, outcome |-> {"StatesCurrentStored"},
          itemFn |-> "none", ts |-> "none"]
    [] b = "StatesCleanInsertionCmdBlock" ->
         [kind |-> "Single", input |-> <<>>, outcome |-> {"StatesClean"},
          itemFn |-> "none", ts |-> "none"]
    [] b = "StatesDiscoverCmdBlockCurrent" ->
         [kind |-> "ItemWise", input |-> <<>>, outcome |-> {"StatesCurrent"},
          itemFn |-> "discover", ts |-> "none"]
    [] b = "StatesDiscoverCmdBlockGoal" ->
         [kind |-> "ItemWise", input |-> <<>>, outcome |-> {"StatesGoal"},
          itemFn |-> "discover", ts |-> "none"]
    [] b = "ApplyStateSyncCheckCmdBlockCurrent" ->
         [kind |-> "Single", input |-> <<"StatesCurrentStored", "StatesCurrent">>,
          outcome |-> {"StatesCurrentStored", "StatesCurrent"},
          itemFn |-> "none", ts |-> "none"]

BlockDesc(b) ==
  IF \E t \in StatesTss : b = ApplyExecName(t)
  THEN ApplyExecDesc(CHOOSE t \in StatesTss : b = ApplyExecName(t))
  ELSE IF b = "StatesGoalReadCmdBlock" THEN StatesGoalReadDesc
  ELSE OtherBlockDesc(b)

\* CleanCmd::exec_internal: the with_cmd_block calls, in program order.
CleanCmdBlocks(sync, ts) ==
  <<"StatesCurrentReadCmdBlock", "StatesCleanInsertionCmdBlock">>
  \o (CASE sync = "None" -> <<>>
        [] sync = "Current" -> <<"StatesDiscoverCmdBlockCurrent",
                                 "ApplyStateSyncCheckCmdBlockCurrent">>
        [] sync = "Goal" -> <<"StatesDiscoverCmdBlockCurrent">>
        [] sync = "Both" -> <<"StatesDiscoverCmdBlockCurrent",
                              "ApplyStateSyncCheckCmdBlockCurrent">>)
  \o <<ApplyExecName(ts)>>

\* A CmdExecution around ApplyExecCmdBlock<Ensured / EnsuredDry>: the discover
\* blocks before it put StatesCurrent and StatesGoal in Resources.
EnsureBlocks(ts) ==
  <<"StatesCurrentReadCmdBlock", "StatesDiscoverCmdBlockCurrent",
    "StatesDiscoverCmdBlockGoal", ApplyExecName(ts)>>

\* The commands that are run. CleanCmd builds the same blocks for
\* ApplyStoredStateSync::Both as for Current, so Both is not run on its own.
Cmds ==
  [name : {"CleanCmd"}, sync : ApplyStoredStateSyncs \ {"Both"},
   ts : {"Cleaned", "CleanedDry"}]
  \cup [name : {"Ensure"}, sync : {"None"}, ts : {"Ensured", "EnsuredDry"}]

CmdBlocksOf(c) ==
  IF c.name = "CleanCmd" THEN CleanCmdBlocks(c.sync, c.ts) ELSE EnsureBlocks(c.ts)

\* --------------------------------------------------------------- state
VARIABLES
  cmd,            \* the command being run: name, ApplyStoredStateSync, StatesTs
  graph,          \* edges of the flow's item graph
  toAdd,          \* with_cmd_block calls the command has still to make
  cmd_blocks,     \* CmdExecutionBuilder / CmdExecution: VecDeque of blocks
  addOrder,       \* history: blocks in the order with_cmd_block was called
  pc,             \* "build", "fold", "stream", "extract", "done", "returned"
  blockIdx,       \* index (from 1) of the block the fold is at
  resources,      \* Resources: the types present in the store
  interrupted,    \* the interrupt signal has been sent
  itemPhase,      \* per item: "idle", "ready", "prepare", "apply", "ok", "err"
  checkReturned,  \* history: what the item's apply_check returned
  item_apply,     \* per item: the ItemApply built by prepare
  applyInvoked,   \* history: "apply" / "apply_dry" once the item's fn ran
  outcomesQ,      \* outcomes_tx -> outcomes_rx channel
  errors,         \* keys of the block's errors map
  collated,       \* items whose outcome outcome_collate has processed
  queueClosed,    \* the traversal's queuer has stopped queueing items
  streamCut,      \* the traversal has seen the interrupt signal
  streamState,    \* StreamOutcomeState of the last stream, or "none"
  foldResult,     \* result of the try_fold over the blocks
  result,         \* what CmdExecution::exec returned
  execLog,        \* history: input_fetch / exec / outcome_insert events
  emitted,        \* history, per item: the outcome kind its future sent
  marker,         \* per item: its Current<State> and ApplyDry<State> resources
  fetchCalls,     \* history: calls of execution_outcome_fetch
  serialized,     \* what serialize_current did: "none", "written", "io_error"
  blockError,     \* the CmdBlockError::Exec / InputFetch the failed block returned
  execErr,        \* the error in the Err that CmdExecution::exec returned
  progress_tx,    \* output_progress: live clones of the progress Sender
  progress_rx,    \* output_progress: messages sent and not yet received
  drainTask,      \* "off" without output_progress, else "unspawned", "running", "ended"
  progressLost,   \* history: items with a progress message that try_send dropped
  \* ApplyCmd (cmds/sub/apply_cmd.rs), the command written on CmdBase:
  acArgs,              \* apply_for, apply_stored_state_sync
  states_current_stored, \* per item: the state in the stored current states
  states_current,      \* per item: the state that current discovery finds
  states_goal_stored,  \* per item: the state in the stored goal states
  states_goal,         \* per item: the state that goal discovery finds
  acPc,                \* position of the closure given to CmdBase::exec
  acOutcomes,          \* outcomes_tx -> outcomes_rx channel of ApplyExecOutcome
  acItem,              \* per item: "idle", "ok", "err"
  acPrepared,          \* history: items whose prepare has run
  acApplied,           \* history: items whose apply / apply_dry has run
  acErrors,            \* keys of the CmdOutcome's errors map
  acClosed,            \* the traversal's queuer has stopped queueing items
  acDiscovered,        \* history: which of "current", "goal" were discovered
  acResult,            \* what exec_internal returned
  acSerialized,        \* what serialize_current did: "none", "written", "io_error"
  \* Functions checked on their own:
  call,                \* the function that is called and its arguments
  ret                  \* what the call returned

acVars == <<acArgs, states_current_stored, states_current, states_goal_stored,
            states_goal, acPc, acOutcomes, acItem, acPrepared, acApplied,
            acErrors, acClosed, acDiscovered, acResult, acSerialized>>

engineVars == <<cmd, toAdd, cmd_blocks, addOrder, pc, blockIdx, resources,
                interrupted, itemPhase, checkReturned, item_apply, applyInvoked,
                outcomesQ, errors, collated, queueClosed, streamCut, streamState,
                foldResult, result, execLog, emitted, marker, fetchCalls,
                serialized, blockError, execErr, progress_tx, progress_rx,
                drainTask, progressLost>>

fnVars == <<call, ret>>

vars == <<graph, engineVars, acVars, fnVars>>

streamVars == <<itemPhase, checkReturned, item_apply, applyInvoked, outcomesQ,
                errors, collated, queueClosed, streamCut>>

\* Current<State> and ApplyDry<State> of an item, both None after set up.
NoMarker == [Current |-> "none", ApplyDry |-> "none"]

\* No block has failed with an error; exec has returned no Err.
NoError == [kind |-> "none"]

NoItemApply == [apply_check |-> "none", state_applied |-> "none"]

FoldOk == [tag |-> "Ok", index |-> 0, kind |-> "none"]
FoldErr(i, k) == [tag |-> "Err", index |-> i, kind |-> k]

NoResult == [tag |-> "none", outcome |-> "none", index |-> 0,
             streamState |-> "none", errors |-> {}]

NoAcResult == [tag |-> "none", error |-> "none", errors |-> {}]

\* The states used when ApplyCmd is not the command that is run.
NoStates == [i \in Items |-> "none"]

\* No function is called on its own.
NoCall == [fn |-> "none"]
NoRet == [tag |-> "none"]
FnIdle == call = NoCall /\ ret = NoRet

\* ApplyCmd has not been called.
AcIdle ==
  /\ acArgs = [apply_for |-> "Ensure", apply_stored_state_sync |-> "None"]
  /\ states_current_stored = NoStates
  /\ states_current = NoStates
  /\ states_goal_stored = NoStates
  /\ states_goal = NoStates
  /\ acPc = "off"
  /\ acOutcomes = <<>>
  /\ acItem = [i \in Items |-> "idle"]
  /\ acPrepared = {}
  /\ acApplied = {}
  /\ acErrors = {}
  /\ acClosed = FALSE
  /\ acDiscovered = {}
  /\ acResult = NoAcResult
  /\ acSerialized = "none"

\* The CmdExecution of the command cmd, not yet built.
EngineInit ==
  /\ toAdd = CmdBlocksOf(cmd)
  /\ cmd_blocks = <<>>
  /\ addOrder = <<>>
  /\ blockIdx = 1
  /\ resources = {}
  /\ interrupted = FALSE
  /\ itemPhase = [i \in Items |-> "idle"]
  /\ checkReturned = [i \in Items |-> "none"]
  /\ item_apply = [i \in Items |-> NoItemApply]
  /\ applyInvoked = [i \in Items |-> "none"]
  /\ outcomesQ = <<>>
  /\ errors = {}
  /\ collated = {}
  /\ queueClosed = FALSE
  /\ streamCut = FALSE
  /\ streamState = "none"
  /\ foldResult = FoldOk
  /\ result = NoResult
  /\ execLog = <<>>
  /\ emitted = [i \in Items |-> "none"]
  /\ marker = [i \in Items |-> NoMarker]
  /\ fetchCalls = 0
  /\ serialized = "none"
  /\ blockError = NoError
  /\ execErr = NoError
  /\ progress_tx = 0
  /\ progress_rx = <<>>
  /\ progressLost = {}

Init ==
  /\ cmd \in Cmds
  /\ graph \in Graphs
  /\ EngineInit
  /\ drainTask = "off"
  /\ pc = "build"
  /\ AcIdle
  /\ FnIdle

\* ------------------------------------------------------- progress channel
\* The command is compiled with the output_progress feature.
OutputProgress == drainTask # "off"

\* Capacity of mpsc::channel::<ProgressUpdateAndId>(PROGRESS_COUNT_MAX).
PROGRESS_COUNT_MAX == 1

\* progress_tx.clone(): one more live Sender.
SenderClone(n) == n + 1

\* A Sender that is forgotten instead of dropped.
SenderLeaked(n) == n

\* drop(progress_tx), or the Sender going out of scope.
SenderDrop(n) == n - 1

\* A send that waits for capacity in the channel.
SendAwaitsCapacity(q) == Len(q) < PROGRESS_COUNT_MAX

\* try_send returns at once, whether or not the channel has capacity.
TrySendReturns(q) == TRUE

\* try_send: the message is queued if the channel has capacity; otherwise it
\* is handed back in the Err that the caller discards.
TrySend(q, m) == IF Len(q) < PROGRESS_COUNT_MAX THEN Append(q, m) ELSE q

\* let _progress_send_unused = progress_tx.try_send(ProgressUpdateAndId {..})
\* in the branch item_apply_exec takes for item i.
ProgressTrySend(i) ==
  IF OutputProgress
  THEN /\ TrySendReturns(progress_rx)
       /\ progress_rx' = TrySend(progress_rx, i)
       /\ progressLost' = IF TrySend(progress_rx, i) = progress_rx
                          THEN progressLost \cup {i} ELSE progressLost
  ELSE UNCHANGED <<progress_rx, progressLost>>

\* ------------------------------------------------------ CmdExecutionBuilder
\* A builder that pushes each block to the front.
PushFront(blocks, b) == <<b>> \o blocks

\* with_cmd_block: cmd_blocks.push_back(Box::pin(cmd_block)).
PushBack(blocks, b) == Append(blocks, b)

WithCmdBlock ==
  /\ pc = "build"
  /\ toAdd # <<>>
  /\ cmd_blocks' = PushBack(cmd_blocks, Head(toAdd))
  /\ addOrder' = Append(addOrder, Head(toAdd))
  /\ toAdd' = Tail(toAdd)
  /\ UNCHANGED acVars
  /\ UNCHANGED fnVars
  /\ UNCHANGED <<progress_tx, progress_rx, drainTask, progressLost>>
  /\ UNCHANGED <<blockError, execErr>>
  /\ UNCHANGED <<emitted, marker, fetchCalls, serialized>>
  /\ UNCHANGED <<cmd, graph, pc, blockIdx, resources, interrupted, streamVars,
                 streamState, foldResult, result, execLog>>

\* build(), followed by CmdExecution::exec starting the fold at block 1.
Build ==
  /\ pc = "build"
  /\ toAdd = <<>>
  /\ pc' = "fold"
  /\ blockIdx' = 1
  /\ progress_tx' = IF OutputProgress THEN 1 ELSE 0
  /\ drainTask' = IF OutputProgress THEN "running" ELSE "off"
  /\ UNCHANGED acVars
  /\ UNCHANGED fnVars
  /\ UNCHANGED <<progress_rx, progressLost>>
  /\ UNCHANGED <<blockError, execErr>>
  /\ UNCHANGED <<emitted, marker, fetchCalls, serialized>>
  /\ UNCHANGED <<cmd, graph, toAdd, cmd_blocks, addOrder, resources, interrupted,
                 streamVars, streamState, foldResult, result, execLog>>

\* ------------------------------------------------------------ input_fetch
\* try_remove of each input type in order: the first absent type fails the
\* fetch, the types before it have been removed.
RECURSIVE InputFetch(_, _)
InputFetch(res, input) ==
  IF input = <<>> THEN [ok |-> TRUE, res |-> res]
  ELSE IF Head(input) \notin res THEN [ok |-> FALSE, res |-> res]
  ELSE InputFetch(res \ {Head(input)}, Tail(input))

\* The type whose try_remove fails: the first input type absent from res.
RECURSIVE FirstAbsent(_, _)
FirstAbsent(res, input) ==
  IF input = <<>> THEN "none"
  ELSE IF Head(input) \notin res THEN Head(input)
  ELSE FirstAbsent(res, Tail(input))

\* input_fetch(..)?: the ResourceFetchError becomes CmdBlockError::InputFetch.
CmdBlockErrorInputFetch(res, input) ==
  [kind |-> "InputFetch", resource_fetch_error |-> FirstAbsent(res, input)]

\* Errors of type E that the exec of a block returns.
ExecErrors == {"e1", "e2"}

\* exec(..).await.map_err(CmdBlockError::Exec)?
CmdBlockErrorExec(e) == [kind |-> "Exec", e |-> e]

CurBlock == cmd_blocks[blockIdx]
CurDesc == BlockDesc(CurBlock)

\* A fold that goes on to the next block whatever the wrapper returned.
FoldAlwaysContinues(blockResult) == TRUE

\* try_fold: the fold goes on to the next block only after an Ok.
FoldContinues(blockResult) == blockResult = "Ok"

\* pc and blockIdx after the wrapper returned blockResult for the block.
FoldPcAfter(blockResult) ==
  IF FoldContinues(blockResult) /\ blockIdx < Len(cmd_blocks) THEN "fold" ELSE "extract"
FoldIdxAfter(blockResult) ==
  IF FoldContinues(blockResult) /\ blockIdx < Len(cmd_blocks) THEN blockIdx + 1 ELSE blockIdx
FoldResultAfter(blockResult) ==
  IF blockResult = "Ok" THEN foldResult
  ELSE IF foldResult.tag = "Err" THEN foldResult
  ELSE FoldErr(blockIdx, blockResult)

Ev(what, i) == <<what, i, cmd_blocks[i]>>

ResetStream ==
  /\ checkReturned' = [i \in Items |-> "none"]
  /\ item_apply' = [i \in Items |-> NoItemApply]
  /\ applyInvoked' = [i \in Items |-> "none"]
  /\ outcomesQ' = <<>>
  /\ errors' = {}
  /\ collated' = {}
  /\ queueClosed' = FALSE
  /\ streamCut' = FALSE
  /\ emitted' = [i \in Items |-> "none"]

\* ------------------------------------------- CmdBlockWrapper::exec, Single
\* input_fetch, the block's exec, then outcome_insert of the Single outcome.
\* The block's exec returns Ok(CmdBlockOutcome::Single(..)) or Err(e).
BlockExecSingle ==
  /\ pc = "fold"
  /\ CurDesc.kind = "Single"
  /\ LET f == InputFetch(resources, CurDesc.input) IN
     IF ~f.ok
     THEN /\ resources' = f.res
          /\ execLog' = Append(execLog, Ev("input_fetch", blockIdx))
          /\ blockError' = CmdBlockErrorInputFetch(resources, CurDesc.input)
          /\ foldResult' = FoldResultAfter("InputFetch")
          /\ pc' = FoldPcAfter("InputFetch")
          /\ blockIdx' = FoldIdxAfter("InputFetch")
     ELSE \E execOk \in BOOLEAN :
          IF execOk
          THEN /\ resources' = f.res \cup CurDesc.outcome
               /\ UNCHANGED blockError
               /\ execLog' = execLog \o <<Ev("input_fetch", blockIdx), Ev("exec", blockIdx),
                                          Ev("outcome_insert", blockIdx)>>
               /\ foldResult' = FoldResultAfter("Ok")
               /\ pc' = FoldPcAfter("Ok")
               /\ blockIdx' = FoldIdxAfter("Ok")
          ELSE /\ resources' = f.res
               /\ execLog' = execLog \o <<Ev("input_fetch", blockIdx), Ev("exec", blockIdx)>>
               /\ \E e \in ExecErrors : blockError' = CmdBlockErrorExec(e)
               /\ foldResult' = FoldResultAfter("Exec")
               /\ pc' = FoldPcAfter("Exec")
               /\ blockIdx' = FoldIdxAfter("Exec")
  /\ progress_tx' = IF OutputProgress
                   THEN SenderDrop(SenderClone(progress_tx)) ELSE progress_tx
  /\ UNCHANGED acVars
  /\ UNCHANGED fnVars
  /\ UNCHANGED <<progress_rx, drainTask, progressLost>>
  /\ UNCHANGED <<execErr>>
  /\ UNCHANGED <<emitted, marker, fetchCalls, serialized>>
  /\ UNCHANGED <<cmd, graph, toAdd, cmd_blocks, addOrder, interrupted, streamVars,
                 streamState, result>>

\* Stream options without the interruptibility.
StreamOptsUninterruptible(applyFor) ==
  [rev |-> (applyFor = "Clean"), interruptible |-> FALSE]

\* Stream options that never reverse the traversal.
StreamOptsForwardOnly(applyFor) ==
  [rev |-> FALSE, interruptible |-> TRUE]

\* ----------------------------------------- CmdBlockWrapper::exec, ItemWise
\* StreamOpts the block hands to the traversal: Ensure streams forward,
\* Clean streams with rev(); both pass the interruptibility on.
StreamOptsOf(applyFor) ==
  [rev |-> (applyFor = "Clean"), interruptible |-> TRUE]

CurStreamOpts ==
  IF CurDesc.itemFn = "apply" THEN StreamOptsOf(StatesTsApplyFor(CurDesc.ts))
  ELSE [rev |-> FALSE, interruptible |-> TRUE]

\* Predecessors of an item in the direction of the traversal.
DirPreds(i) ==
  IF CurStreamOpts.rev THEN Successors(graph, i) ELSE Predecessors(graph, i)

\* input_fetch, then the block's exec begins: the traversal is set up with
\* the items that have no predecessor in its direction queued as ready.
BlockStartItemWise ==
  /\ pc = "fold"
  /\ CurDesc.kind = "ItemWise"
  /\ LET f == InputFetch(resources, CurDesc.input) IN
     /\ resources' = f.res
     /\ IF ~f.ok
        THEN /\ execLog' = Append(execLog, Ev("input_fetch", blockIdx))
             /\ blockError' = CmdBlockErrorInputFetch(resources, CurDesc.input)
             /\ foldResult' = FoldResultAfter("InputFetch")
             /\ pc' = FoldPcAfter("InputFetch")
             /\ blockIdx' = FoldIdxAfter("InputFetch")
             /\ progress_tx' = IF OutputProgress
                              THEN SenderDrop(SenderClone(progress_tx)) ELSE progress_tx
             /\ UNCHANGED <<streamVars, streamState, emitted>>
        ELSE /\ execLog' = execLog \o <<Ev("input_fetch", blockIdx), Ev("exec", blockIdx)>>
             /\ progress_tx' = IF OutputProgress THEN SenderClone(progress_tx) ELSE progress_tx
             /\ pc' = "stream"
             /\ itemPhase' = [i \in Items |-> IF DirPreds(i) = {} THEN "ready" ELSE "idle"]
             /\ ResetStream
             /\ streamState' = "NotStarted"
             /\ UNCHANGED <<foldResult, blockIdx, blockError>>
  /\ UNCHANGED acVars
  /\ UNCHANGED fnVars
  /\ UNCHANGED <<progress_rx, drainTask, progressLost>>
  /\ UNCHANGED <<execErr>>
  /\ UNCHANGED <<marker, fetchCalls, serialized>>
  /\ UNCHANGED <<cmd, graph, toAdd, cmd_blocks, addOrder, interrupted, result>>

InFlight == {i \in Items : itemPhase[i] \in {"prepare", "apply"}}
Started == {i \in Items : itemPhase[i] \in {"prepare", "apply", "ok", "err"}}

\* The queuer makes an item ready once all its predecessors in the
\* direction of the traversal have returned Ok(()).
StreamQueue(i) ==
  /\ pc = "stream"
  /\ ~queueClosed
  /\ itemPhase[i] = "idle"
  /\ \A p \in DirPreds(i) : itemPhase[p] = "ok"
  /\ itemPhase' = [itemPhase EXCEPT ![i] = "ready"]
  /\ UNCHANGED acVars
  /\ UNCHANGED fnVars
  /\ UNCHANGED <<progress_tx, progress_rx, drainTask, progressLost>>
  /\ UNCHANGED <<blockError, execErr>>
  /\ UNCHANGED <<emitted, marker, fetchCalls, serialized>>
  /\ UNCHANGED <<cmd, graph, toAdd, cmd_blocks, addOrder, pc, blockIdx, resources,
                 interrupted, checkReturned, item_apply, applyInvoked, outcomesQ,
                 errors, collated, queueClosed, streamCut, streamState, foldResult,
                 result, execLog>>

\* The traversal polls the interruptibility before it takes the next ready
\* item, and starts the item's future when no interrupt has been signalled.
StreamLaunch(i) ==
  /\ pc = "stream"
  /\ itemPhase[i] = "ready"
  /\ ~streamCut
  /\ ~(CurStreamOpts.interruptible /\ interrupted)
  /\ Cardinality(InFlight) < BUFFERED_FUTURES_MAX
  /\ itemPhase' = [itemPhase EXCEPT ![i] = "prepare"]
  /\ UNCHANGED acVars
  /\ UNCHANGED fnVars
  /\ UNCHANGED <<progress_tx, progress_rx, drainTask, progressLost>>
  /\ UNCHANGED <<blockError, execErr>>
  /\ UNCHANGED <<emitted, marker, fetchCalls, serialized>>
  /\ UNCHANGED <<cmd, graph, toAdd, cmd_blocks, addOrder, pc, blockIdx, resources,
                 interrupted, checkReturned, item_apply, applyInvoked, outcomesQ,
                 errors, collated, queueClosed, streamCut, streamState, foldResult,
                 result, execLog>>

\* The poll finds the interrupt signal: nothing is taken from the queue any
\* more, and the stream's outcome state becomes Interrupted.
StreamInterrupt ==
  /\ pc = "stream"
  /\ CurStreamOpts.interruptible /\ interrupted
  /\ ~streamCut
  /\ streamCut' = TRUE
  /\ UNCHANGED acVars
  /\ UNCHANGED fnVars
  /\ UNCHANGED <<progress_tx, progress_rx, drainTask, progressLost>>
  /\ UNCHANGED <<blockError, execErr>>
  /\ UNCHANGED <<emitted, marker, fetchCalls, serialized>>
  /\ UNCHANGED <<cmd, graph, toAdd, cmd_blocks, addOrder, pc, blockIdx, resources,
                 interrupted, itemPhase, checkReturned, item_apply, applyInvoked,
                 outcomesQ, errors, collated, queueClosed, streamState, foldResult,
                 result, execLog>>

\* -------------------------------------- ApplyExecCmdBlock::item_apply_exec
Outcome(k, i, sa) == [kind |-> k, item_id |-> i, state_applied |-> sa]

\* A prepare that stores ExecRequired whatever apply_check returned.
RecordExecRequired(c) == "ExecRequired"

\* ensure_prepare / clean_prepare: the ApplyCheck that apply_check returned
\* is stored in the ItemApply.
RecordCheck(c) == c

\* ensure_prepare / clean_prepare: state_applied is state_current when the
\* check is ExecNotRequired, None otherwise.
PreparedStateApplied(c) == IF c = "ExecNotRequired" THEN "current" ELSE "none"

\* item_apply_exec: ExecNotRequired sends Success and returns before apply_fn.
ShortCircuits(ia) == ia.apply_check = "ExecNotRequired"

\* ItemSpecWrapper::apply_exec / apply_exec_dry: the item's function is run
\* for ExecRequired only.
ApplyOpRuns(ia) == ia.apply_check # "ExecNotRequired"

\* An item future returned Err(()): the traversal may stop queueing.
MayClose == \E close \in BOOLEAN : queueClosed' = (queueClosed \/ close)

\* A function run that leaves the item's resources as they were.
ApplyOpNoMarker(fn, m) == m

\* A function run that sets Current<State> whichever function it ran.
ApplyOpMarkerCurrentForDry(fn, m) == [m EXCEPT !.Current = "applied"]

\* apply_op_exec sets Current<State> to the state that apply returned,
\* apply_op_exec_dry sets ApplyDry<State> to the state that apply_dry returned.
ApplyOpMarker(fn, m) ==
  IF fn = "apply" THEN [m EXCEPT !.Current = "applied"]
  ELSE [m EXCEPT !.ApplyDry = "applied"]

\* state_current_exec sets Current<State> to the state that was discovered.
StateCurrentMarker(m) == [m EXCEPT !.Current = "discovered"]

\* An item_apply_exec that sends nothing when apply_fn fails.
ApplyOutcomeSilentOnFail(ok) == IF ok THEN "Success" ELSE "none"

\* item_apply_exec on the result of apply_fn: Ok(()) sends Success, Err(error)
\* sends Fail.
ApplyOutcomeKind(ok) == IF ok THEN "Success" ELSE "Fail"

\* An item future that returns Ok(()) whatever outcome it sent.
FutureAlwaysOk(kind) == "ok"

\* An item future that returns Err(()) whatever outcome it sent.
FutureAlwaysErr(kind) == "err"

\* item_apply_exec returns Ok(()) after it sent Success, and Err(()) after it
\* sent Fail or PrepareFail.
FutureResult(kind) == IF kind = "Success" THEN "ok" ELSE "err"

\* First half of item_apply_exec: prepare, then the match on apply_check.
ItemPrepare(i) ==
  /\ pc = "stream"
  /\ CurDesc.itemFn = "apply"
  /\ itemPhase[i] = "prepare"
  /\ \E r \in {"PrepareFail", "ExecRequired", "ExecNotRequired"} :
       IF r = "PrepareFail"
       THEN /\ outcomesQ' = Append(outcomesQ, Outcome("PrepareFail", i, "none"))
            /\ emitted' = [emitted EXCEPT ![i] = "PrepareFail"]
            /\ itemPhase' = [itemPhase EXCEPT ![i] = FutureResult("PrepareFail")]
            /\ MayClose
            /\ UNCHANGED <<checkReturned, item_apply>>
       ELSE LET ia == [apply_check |-> RecordCheck(r),
                       state_applied |-> PreparedStateApplied(r)] IN
            /\ checkReturned' = [checkReturned EXCEPT ![i] = r]
            /\ item_apply' = [item_apply EXCEPT ![i] = ia]
            /\ IF ShortCircuits(ia)
               THEN /\ outcomesQ' = Append(outcomesQ, Outcome("Success", i, ia.state_applied))
                    /\ emitted' = [emitted EXCEPT ![i] = "Success"]
                    /\ itemPhase' = [itemPhase EXCEPT ![i] = FutureResult("Success")]
               ELSE /\ itemPhase' = [itemPhase EXCEPT ![i] = "apply"]
                    /\ UNCHANGED <<outcomesQ, emitted>>
            /\ UNCHANGED queueClosed
  /\ ProgressTrySend(i)
  /\ UNCHANGED acVars
  /\ UNCHANGED fnVars
  /\ UNCHANGED <<progress_tx, drainTask>>
  /\ UNCHANGED <<blockError, execErr>>
  /\ UNCHANGED <<marker, fetchCalls, serialized>>
  /\ UNCHANGED <<cmd, graph, toAdd, cmd_blocks, addOrder, pc, blockIdx, resources,
                 interrupted, applyInvoked, errors, collated, streamCut, streamState,
                 foldResult, result, execLog>>

\* Second half of item_apply_exec: apply_fn (apply_exec or apply_exec_dry),
\* then Success or Fail is sent.
ItemApply(i) ==
  /\ pc = "stream"
  /\ CurDesc.itemFn = "apply"
  /\ itemPhase[i] = "apply"
  /\ LET fn == IF StatesTsDryRun(CurDesc.ts) THEN "apply_dry" ELSE "apply" IN
     IF ApplyOpRuns(item_apply[i])
     THEN /\ applyInvoked' = [applyInvoked EXCEPT ![i] = fn]
          /\ \E ok \in BOOLEAN :
               IF ok
               THEN /\ marker' = [marker EXCEPT ![i] = ApplyOpMarker(fn, @)]
                    /\ item_apply' = [item_apply EXCEPT ![i].state_applied = "applied"]
                    /\ outcomesQ' = Append(outcomesQ,
                                           Outcome(ApplyOutcomeKind(TRUE), i, "applied"))
                    /\ emitted' = [emitted EXCEPT ![i] = ApplyOutcomeKind(TRUE)]
                    /\ itemPhase' = [itemPhase EXCEPT ![i] = FutureResult("Success")]
                    /\ UNCHANGED queueClosed
               ELSE /\ outcomesQ' = Append(outcomesQ,
                                           Outcome(ApplyOutcomeKind(FALSE), i,
                                                   item_apply[i].state_applied))
                    /\ emitted' = [emitted EXCEPT ![i] = ApplyOutcomeKind(FALSE)]
                    /\ itemPhase' = [itemPhase EXCEPT ![i] = FutureResult("Fail")]
                    /\ MayClose
                    /\ UNCHANGED <<item_apply, marker>>
     ELSE /\ outcomesQ' = Append(outcomesQ,
                                 Outcome("Success", i, item_apply[i].state_applied))
          /\ emitted' = [emitted EXCEPT ![i] = "Success"]
          /\ itemPhase' = [itemPhase EXCEPT ![i] = FutureResult("Success")]
          /\ UNCHANGED <<applyInvoked, item_apply, queueClosed, marker>>
  /\ ProgressTrySend(i)
  /\ UNCHANGED acVars
  /\ UNCHANGED fnVars
  /\ UNCHANGED <<progress_tx, drainTask>>
  /\ UNCHANGED <<blockError, execErr>>
  /\ UNCHANGED <<fetchCalls, serialized>>
  /\ UNCHANGED <<cmd, graph, toAdd, cmd_blocks, addOrder, pc, blockIdx, resources,
                 interrupted, checkReturned, errors, collated, streamCut, streamState,
                 foldResult, result, execLog>>

\* Item function of the discover blocks: the state is discovered or the
\* item's error is sent; the traversal goes on either way.
ItemDiscover(i) ==
  /\ pc = "stream"
  /\ CurDesc.itemFn = "discover"
  /\ itemPhase[i] = "prepare"
  /\ \E ok \in BOOLEAN :
       /\ outcomesQ' = Append(outcomesQ, Outcome(IF ok THEN "Success" ELSE "Fail", i, "none"))
       /\ emitted' = [emitted EXCEPT ![i] = IF ok THEN "Success" ELSE "Fail"]
       /\ marker' = IF ok /\ CurBlock = "StatesDiscoverCmdBlockCurrent"
                    THEN [marker EXCEPT ![i] = StateCurrentMarker(@)] ELSE marker
  /\ itemPhase' = [itemPhase EXCEPT ![i] = "ok"]
  /\ UNCHANGED acVars
  /\ UNCHANGED fnVars
  /\ UNCHANGED <<progress_tx, progress_rx, drainTask, progressLost>>
  /\ UNCHANGED <<blockError, execErr>>
  /\ UNCHANGED <<fetchCalls, serialized>>
  /\ UNCHANGED <<cmd, graph, toAdd, cmd_blocks, addOrder, pc, blockIdx, resources,
                 interrupted, checkReturned, item_apply, applyInvoked, errors, collated,
                 queueClosed, streamCut, streamState, foldResult, result, execLog>>

\* A collate that records the error of PrepareFail only.
CollatePrepareFailOnly(errs, o) ==
  IF o.kind = "PrepareFail" THEN errs \cup {o.item_id} ELSE errs

\* outcome_collate: PrepareFail and Fail insert the item's error.
CollateErrors(errs, o) ==
  IF o.kind \in {"PrepareFail", "Fail"} THEN errs \cup {o.item_id} ELSE errs

OutcomeCollate ==
  /\ pc = "stream"
  /\ outcomesQ # <<>>
  /\ errors' = CollateErrors(errors, Head(outcomesQ))
  /\ collated' = collated \cup {Head(outcomesQ).item_id}
  /\ outcomesQ' = Tail(outcomesQ)
  /\ UNCHANGED acVars
  /\ UNCHANGED fnVars
  /\ UNCHANGED <<progress_tx, progress_rx, drainTask, progressLost>>
  /\ UNCHANGED <<blockError, execErr>>
  /\ UNCHANGED <<emitted, marker, fetchCalls, serialized>>
  /\ UNCHANGED <<cmd, graph, toAdd, cmd_blocks, addOrder, pc, blockIdx, resources,
                 interrupted, itemPhase, checkReturned, item_apply, applyInvoked,
                 queueClosed, streamCut, streamState, foldResult, result, execLog>>

\* The traversal has ended: nothing is in flight and nothing more will be
\* started; every outcome sent has been received.
StreamEnded ==
  /\ InFlight = {}
  /\ outcomesQ = <<>>
  /\ \/ streamCut
     \/ /\ \A i \in Items : itemPhase[i] # "ready"
        /\ \/ queueClosed
           \/ \A i \in Items :
                itemPhase[i] = "idle" => \E p \in DirPreds(i) : itemPhase[p] # "ok"

StreamEndState == IF streamCut THEN "Interrupted" ELSE "Finished"

\* A wrapper that looks at the stream state only, never at the errors.
WrapperIgnoresErrors(errs, state) ==
  CASE state = "NotStarted" -> "Unreachable"
    [] state = "Interrupted" -> "Interrupt"
    [] OTHER -> "Ok"

\* A wrapper that takes every stream that did not finish for one that was
\* not started.
WrapperUnfinishedIsNotStarted(errs, state) ==
  IF errs = {}
  THEN CASE state = "Finished" -> "Ok"
         [] OTHER -> "Unreachable"
  ELSE "ItemError"

\* CmdBlockWrapper::exec on CmdBlockOutcome::ItemWise { stream_outcome, errors }.
WrapperItemWise(errs, state) ==
  IF errs = {}
  THEN CASE state = "NotStarted" -> "Unreachable"
         [] state = "Interrupted" -> "Interrupt"
         [] OTHER -> "Ok"
  ELSE "ItemError"

BlockEndItemWise ==
  /\ pc = "stream"
  /\ StreamEnded
  /\ streamState' = StreamEndState
  /\ LET r == WrapperItemWise(errors, StreamEndState) IN
     /\ foldResult' = FoldResultAfter(r)
     /\ pc' = FoldPcAfter(r)
     /\ blockIdx' = FoldIdxAfter(r)
     /\ IF r = "Ok"
        THEN /\ resources' = resources \cup CurDesc.outcome
             /\ execLog' = Append(execLog, Ev("outcome_insert", blockIdx))
        ELSE UNCHANGED <<resources, execLog>>
  /\ progress_tx' = IF OutputProgress THEN SenderDrop(progress_tx) ELSE progress_tx
  /\ UNCHANGED acVars
  /\ UNCHANGED fnVars
  /\ UNCHANGED <<progress_rx, drainTask, progressLost>>
  /\ UNCHANGED <<blockError, execErr>>
  /\ UNCHANGED <<emitted, marker, fetchCalls, serialized>>
  /\ UNCHANGED <<cmd, graph, toAdd, cmd_blocks, addOrder, interrupted, streamVars, result>>

\* ------------------------------------------------------- outcome_extract
\* What the command's execution_outcome_fetch removes from Resources.
ExecutionOutcomeTypes(c) == {"StatesPrevious", StatesTsName(c.ts)}

Result(t, o, i, st, errs) ==
  [tag |-> t, outcome |-> o, index |-> i, streamState |-> st, errors |-> errs]

\* An outcome_extract that turns an interrupted block into an Err.
OutcomeExtractInterruptIsErr(fr, res, st, errs) ==
  CASE fr.tag = "Ok" ->
         IF ExecutionOutcomeTypes(cmd) \subseteq res
         THEN Result("Ok", "Complete", 0, "none", {})
         ELSE Result("Panic", "none", 0, "none", {})
    [] fr.kind = "ItemError" -> Result("Ok", "ItemError", fr.index, st, errs)
    [] OTHER -> Result("Err", fr.kind, fr.index, "none", {})

OutcomeExtractResult(fr, res, st, errs) ==
  CASE fr.tag = "Ok" ->
         IF ExecutionOutcomeTypes(cmd) \subseteq res
         THEN Result("Ok", "Complete", 0, "none", {})
         ELSE Result("Panic", "none", 0, "none", {})
    [] fr.kind = "InputFetch" -> Result("Err", "CmdExecutionError", fr.index, "none", {})
    [] fr.kind = "Exec" -> Result("Err", "Exec", fr.index, "none", {})
    [] fr.kind = "ItemError" -> Result("Ok", "ItemError", fr.index, st, errs)
    [] fr.kind = "Interrupt" -> Result("Ok", "BlockInterrupted", fr.index, st, errs)
    [] OTHER -> Result("Panic", "none", fr.index, "none", {})

\* An outcome_extract that fetches the execution outcome whatever the fold
\* returned.
FetchAlwaysCalled(fr) == TRUE

\* outcome_extract: execution_outcome_fetch is called in the branch where the
\* fold returned no block error.
FetchCalled(fr) == fr.tag = "Ok"

\* An outcome_extract that builds a CmdExecutionError for every block error.
ExtractErrorAlwaysBuilds(fr, be, blocks) ==
  IF fr.tag = "Err" /\ be.kind \in {"Exec", "InputFetch"}
  THEN [kind |-> "CmdExecutionError", cmd_block_index |-> fr.index,
        cmd_blocks |-> blocks, resource_fetch_error |-> "none"]
  ELSE NoError

\* An outcome_extract that builds the CmdExecutionError without the index.
ExtractErrorWithoutIndex(fr, be, blocks) ==
  CASE fr.tag = "Err" /\ be.kind = "InputFetch" ->
         [kind |-> "CmdExecutionError", cmd_block_index |-> 0,
          cmd_blocks |-> blocks, resource_fetch_error |-> be.resource_fetch_error]
    [] fr.tag = "Err" /\ be.kind = "Exec" -> [kind |-> "E", e |-> be.e]
    [] OTHER -> NoError

\* outcome_extract on Some((cmd_block_index, cmd_block_error)):
\* InputFetch(resource_fetch_error) is CmdExecutionErrorBuilder::build(
\* cmd_blocks.iter(), cmd_block_index, resource_fetch_error) turned into E;
\* Exec(error) is Err(error).
ExtractError(fr, be, blocks) ==
  CASE fr.tag = "Err" /\ be.kind = "InputFetch" ->
         [kind |-> "CmdExecutionError", cmd_block_index |-> fr.index,
          cmd_blocks |-> blocks, resource_fetch_error |-> be.resource_fetch_error]
    [] fr.tag = "Err" /\ be.kind = "Exec" -> [kind |-> "E", e |-> be.e]
    [] OTHER -> NoError

OutcomeExtract ==
  /\ pc = "extract"
  /\ execErr' = ExtractError(foldResult, blockError, cmd_blocks)
  /\ result' = OutcomeExtractResult(foldResult, resources, streamState, errors)
  /\ resources' = IF foldResult.tag = "Ok"
                  THEN resources \ ExecutionOutcomeTypes(cmd) ELSE resources
  /\ fetchCalls' = fetchCalls + (IF FetchCalled(foldResult) THEN 1 ELSE 0)
  /\ pc' = "done"
  /\ progress_tx' = IF OutputProgress THEN SenderDrop(progress_tx) ELSE progress_tx
  /\ UNCHANGED acVars
  /\ UNCHANGED fnVars
  /\ UNCHANGED <<progress_rx, drainTask, progressLost>>
  /\ UNCHANGED <<blockError>>
  /\ UNCHANGED <<emitted, marker, serialized>>
  /\ UNCHANGED <<cmd, graph, toAdd, cmd_blocks, addOrder, blockIdx, interrupted,
                 streamVars, streamState, foldResult, execLog>>

\* ------------------------------------------------- CleanCmd::exec_with
\* An exec_with that writes the states of a Complete outcome only.
SerializesOnCompleteOnly(ts, r) ==
  ~StatesTsDryRun(ts) /\ r.tag = "Ok" /\ r.outcome = "Complete"

\* exec_with: exec_internal(..).await? and then serialize_current, for every
\* CmdOutcome that exec_internal returns in an Ok; exec_dry_with returns what
\* exec_internal returned.
SerializesCurrent(ts, r) == ~StatesTsDryRun(ts) /\ r.tag = "Ok"

\* StatesSerializer::serialize writes the states file or fails with an error.
SerializeOutcomes == {"written", "io_error"}

\* exec_with / exec_dry_with once CmdExecution::exec has returned.
ExecWith ==
  /\ pc = "done"
  /\ OutputProgress => drainTask = "ended"
  /\ pc' = "returned"
  /\ IF SerializesCurrent(cmd.ts, result)
     THEN serialized' \in SerializeOutcomes
     ELSE UNCHANGED serialized
  /\ UNCHANGED acVars
  /\ UNCHANGED fnVars
  /\ UNCHANGED <<progress_tx, progress_rx, drainTask, progressLost>>
  /\ UNCHANGED <<blockError, execErr>>
  /\ UNCHANGED <<emitted, marker, fetchCalls>>
  /\ UNCHANGED <<cmd, graph, toAdd, cmd_blocks, addOrder, blockIdx, resources,
                 interrupted, streamVars, streamState, foldResult, result, execLog>>

\* progress_rx.recv() returns Some(progress_update_and_id): the drain loop,
\* or progress_render, takes the next message.
ProgressRecv ==
  /\ drainTask = "running"
  /\ progress_rx # <<>>
  /\ progress_rx' = Tail(progress_rx)
  /\ UNCHANGED acVars
  /\ UNCHANGED fnVars
  /\ UNCHANGED <<progress_tx, drainTask, progressLost>>
  /\ UNCHANGED <<blockError, execErr>>
  /\ UNCHANGED <<emitted, marker, fetchCalls, serialized>>
  /\ UNCHANGED <<cmd, graph, toAdd, cmd_blocks, addOrder, pc, blockIdx, resources,
                 interrupted, streamVars, streamState, foldResult, result, execLog>>

\* progress_rx.recv() returns None, which it does once the channel is empty
\* and every Sender has been dropped: the task ends.
ProgressRecvNone ==
  /\ drainTask = "running"
  /\ progress_rx = <<>>
  /\ progress_tx = 0
  /\ drainTask' = "ended"
  /\ UNCHANGED acVars
  /\ UNCHANGED fnVars
  /\ UNCHANGED <<progress_tx, progress_rx, progressLost>>
  /\ UNCHANGED <<blockError, execErr>>
  /\ UNCHANGED <<emitted, marker, fetchCalls, serialized>>
  /\ UNCHANGED <<cmd, graph, toAdd, cmd_blocks, addOrder, pc, blockIdx, resources,
                 interrupted, streamVars, streamState, foldResult, result, execLog>>

\* The interrupt signal is sent while the command runs.
Interrupt ==
  /\ pc \in {"fold", "stream"}
  /\ ~interrupted
  /\ interrupted' = TRUE
  /\ UNCHANGED acVars
  /\ UNCHANGED fnVars
  /\ UNCHANGED <<progress_tx, progress_rx, drainTask, progressLost>>
  /\ UNCHANGED <<blockError, execErr>>
  /\ UNCHANGED <<emitted, marker, fetchCalls, serialized>>
  /\ UNCHANGED <<cmd, graph, toAdd, cmd_blocks, addOrder, pc, blockIdx, resources,
                 streamVars, streamState, foldResult, result, execLog>>

Next ==
  \/ WithCmdBlock
  \/ Build
  \/ BlockExecSingle
  \/ BlockStartItemWise
  \/ \E i \in Items : StreamQueue(i)
  \/ \E i \in Items : StreamLaunch(i)
  \/ StreamInterrupt
  \/ \E i \in Items : ItemPrepare(i)
  \/ \E i \in Items : ItemApply(i)
  \/ \E i \in Items : ItemDiscover(i)
  \/ OutcomeCollate
  \/ BlockEndItemWise
  \/ OutcomeExtract
  \/ ExecWith
  \/ Interrupt

Spec == Init /\ [][Next]_vars

TypeOK ==
  /\ pc \in {"build", "fold", "stream", "extract", "done", "returned"}
  /\ blockIdx \in 1..6
  /\ \A i \in Items : itemPhase[i] \in {"idle", "ready", "prepare", "apply", "ok", "err"}
  /\ result.tag # "Panic"

\* ===================================================== ApplyCmd on CmdBase
\* ApplyCmd::exec_internal hands CmdBase::exec a closure that reads, discovers
\* and compares the states, then streams the items, and a closure that
\* collates each ApplyExecOutcome the first one sends.  CmdBase is not part
\* of the sources: it is modelled as running the first closure while a
\* sibling task feeds the second, and returning the first Err of the second.

\* The stored states: item 1 has no stored current state.
StoredCurrent == [i \in Items |-> IF i = 1 THEN "none" ELSE "a"]
StoredGoal == [i \in Items |-> "g"]

\* What discovery can find: the stored states, or the stored states with
\* the first or the last item's state replaced ("bad" is a state of another
\* type).
Tampered(stored, values) ==
  {stored} \cup {[stored EXCEPT ![i] = v] : i \in {1, NumItems}, v \in values}

CurrentsDiscovered == Tampered(StoredCurrent, {"none", "a", "b", "bad"})

\* What goal discovery can find: the stored goal states, or one of them
\* changed, or one of them missing.
GoalsDiscovered ==
  {StoredGoal, [StoredGoal EXCEPT ![NumItems] = "h"], [StoredGoal EXCEPT ![1] = "none"]}

\* The flow graphs ApplyCmd is run on.
AcGraphs == {GraphChain, GraphPair}

AcArgss ==
  [apply_for : {"Ensure", "Clean"}, apply_stored_state_sync : ApplyStoredStateSyncs]

InitApplyCmd ==
  /\ cmd = [name |-> "ApplyCmd", sync |-> "None", ts |-> "Ensured"]
  /\ graph \in AcGraphs
  /\ EngineInit
  /\ drainTask = "off"
  /\ pc = "off"
  /\ acArgs \in AcArgss
  /\ states_current_stored = StoredCurrent
  /\ states_current \in CurrentsDiscovered
  /\ states_goal_stored = StoredGoal
  /\ states_goal \in GoalsDiscovered
  /\ acPc = "states_current_read"
  /\ acOutcomes = <<>>
  /\ acItem = [i \in Items |-> "idle"]
  /\ acPrepared = {}
  /\ acApplied = {}
  /\ acErrors = {}
  /\ acClosed = FALSE
  /\ acDiscovered = {}
  /\ acResult = NoAcResult
  /\ acSerialized = "none"
  /\ FnIdle

\* ItemRt::state_eq: Ok(bool), or Err when a state does not downcast.
StateEq(a, b) ==
  IF a = "bad" \/ b = "bad" THEN "err" ELSE IF a = b THEN "true" ELSE "false"

\* states_in_sync: try_fold over the items in insertion order.
RECURSIVE StatesInSyncFrom(_, _, _)
StatesInSyncFrom(i, stored, states) ==
  IF i > NumItems THEN "true"
  ELSE IF stored[i] = "none" /\ states[i] = "none"
       THEN StatesInSyncFrom(i + 1, stored, states)
  ELSE IF stored[i] = "none" \/ states[i] = "none" THEN "false"
  ELSE IF StateEq(stored[i], states[i]) = "true"
       THEN StatesInSyncFrom(i + 1, stored, states)
  ELSE StateEq(stored[i], states[i])

\* A comparison that looks only at the items present on both sides.
StatesInSyncPresentOnly(stored, states) ==
  IF \E i \in Items : /\ stored[i] # "none"
                      /\ states[i] # "none"
                      /\ StateEq(stored[i], states[i]) # "true"
  THEN "false" ELSE "true"

states_in_sync(stored, states) == StatesInSyncFrom(1, stored, states)

\* A closure that goes on to the next step whatever states_in_sync returned.
SyncCheckNeverReturns(in_sync) == FALSE

\* The closure returns right after the comparison unless it is Ok(true).
SyncCheckReturns(in_sync) == in_sync # "true"

\* The ApplyExecOutcome sent for a comparison that is not Ok(true).
SyncOutcome(in_sync, which) ==
  IF in_sync = "false" THEN "States" \o which \o "OutOfSync" ELSE "StatesDowncastError"

AcOutcome(k, i) == [kind |-> k, item_id |-> i]

\* The sync check on the current states is asked for.
SyncsCurrent(sync) == sync \in {"Current", "Both"}

\* A goal sync check made whatever the command applies for.
SyncsGoalForAnyApply(sync, apply_for) == sync \in {"Goal", "Both"}

\* The sync check on the goal states is asked for, and made.
SyncsGoal(sync, apply_for) == sync \in {"Goal", "Both"} /\ apply_for = "Ensure"

AcUnchangedStates ==
  UNCHANGED <<graph, engineVars, acArgs, states_current_stored, states_current,
              states_goal_stored, states_goal>>

\* states_current_read.
AcStatesCurrentRead ==
  /\ acPc = "states_current_read"
  /\ \E ok \in BOOLEAN :
       IF ok
       THEN acPc' = "current" /\ UNCHANGED acOutcomes
       ELSE /\ acOutcomes' = Append(acOutcomes, AcOutcome("StatesCurrentReadCmdError", 0))
            /\ acPc' = "returned"
  /\ AcUnchangedStates
  /\ UNCHANGED fnVars
  /\ UNCHANGED acSerialized
  /\ UNCHANGED <<acItem, acPrepared, acApplied, acErrors, acClosed, acDiscovered, acResult>>

\* states_current_discover / states_goal_discover: what is sent when the
\* discovery does not return the states.
DiscoverResults == {"ok", "cmd_error", "item_error"}
DiscoverFailOutcome(d, which) ==
  IF d = "cmd_error" THEN "Discover" \o which \o "CmdError" ELSE "DiscoverOutcomeError"

\* The current states: discovery and comparison when the sync check is asked
\* for, discovery alone for Clean, nothing for Ensure; then the
\* StatesCurrentStoredRead outcome.
AcCurrentSync ==
  /\ acPc = "current"
  /\ LET sync == acArgs.apply_stored_state_sync
         discovers == SyncsCurrent(sync) \/ acArgs.apply_for = "Clean"
         in_sync == states_in_sync(states_current_stored, states_current)
     IN \E d \in DiscoverResults :
          IF discovers /\ d # "ok"
          THEN /\ acOutcomes' = Append(acOutcomes, AcOutcome(DiscoverFailOutcome(d, "Current"), 0))
               /\ acPc' = "returned"
               /\ UNCHANGED acDiscovered
          ELSE /\ acDiscovered' = IF discovers THEN acDiscovered \cup {"current"}
                                  ELSE acDiscovered
               /\ IF SyncsCurrent(sync) /\ in_sync # "true"
                  THEN /\ acOutcomes' = Append(acOutcomes, AcOutcome(SyncOutcome(in_sync, "Current"), 0))
                       /\ acPc' = IF SyncCheckReturns(in_sync) THEN "returned" ELSE "goal"
                  ELSE /\ acOutcomes' = Append(acOutcomes, AcOutcome("StatesCurrentStoredRead", 0))
                       /\ acPc' = "goal"
  /\ AcUnchangedStates
  /\ UNCHANGED fnVars
  /\ UNCHANGED acSerialized
  /\ UNCHANGED <<acItem, acPrepared, acApplied, acErrors, acClosed, acResult>>

\* The goal states: read, discovery and comparison, for Ensure with the sync
\* check asked for.
AcGoalSync ==
  /\ acPc = "goal"
  /\ LET in_sync == states_in_sync(states_goal_stored, states_goal) IN
     IF ~SyncsGoal(acArgs.apply_stored_state_sync, acArgs.apply_for)
     THEN acPc' = "stream" /\ UNCHANGED <<acOutcomes, acDiscovered>>
     ELSE \E readOk \in BOOLEAN, d \in DiscoverResults :
            IF ~readOk
            THEN /\ acOutcomes' = Append(acOutcomes, AcOutcome("StatesGoalReadCmdError", 0))
                 /\ acPc' = "returned"
                 /\ UNCHANGED acDiscovered
            ELSE IF d # "ok"
            THEN /\ acOutcomes' = Append(acOutcomes, AcOutcome(DiscoverFailOutcome(d, "Goal"), 0))
                 /\ acPc' = "returned"
                 /\ UNCHANGED acDiscovered
            ELSE /\ acDiscovered' = acDiscovered \cup {"goal"}
                 /\ IF in_sync # "true"
                    THEN /\ acOutcomes' = Append(acOutcomes, AcOutcome(SyncOutcome(in_sync, "Goal"), 0))
                         /\ acPc' = IF SyncCheckReturns(in_sync) THEN "returned" ELSE "stream"
                    ELSE acPc' = "stream" /\ UNCHANGED acOutcomes
  /\ AcUnchangedStates
  /\ UNCHANGED fnVars
  /\ UNCHANGED acSerialized
  /\ UNCHANGED <<acItem, acPrepared, acApplied, acErrors, acClosed, acResult>>

\* try_for_each_concurrent for Ensure, try_for_each_concurrent_rev for Clean.
AcDirPreds(i) ==
  IF acArgs.apply_for = "Clean" THEN Successors(graph, i) ELSE Predecessors(graph, i)

AcStartable(i) ==
  /\ acItem[i] = "idle"
  /\ ~acClosed
  /\ \A p \in AcDirPreds(i) : acItem[p] = "ok"

\* The ItemApplyOutcome item_apply_exec sends for what prepare and apply did.
ItemOutcomeKind(r) ==
  CASE r = "PrepareFail" -> "PrepareFail"
    [] r = "ApplyFail" -> "Fail"
    [] OTHER -> "Success"

\* item_apply_exec of one item: prepare, then apply unless the check is
\* ExecNotRequired, then the outcome is sent.
AcItemApplyExec(i) ==
  /\ acPc = "stream"
  /\ AcStartable(i)
  /\ \E r \in {"PrepareFail", "ExecNotRequired", "ApplyOk", "ApplyFail"} :
       /\ acPrepared' = acPrepared \cup {i}
       /\ acApplied' = IF r \in {"ApplyOk", "ApplyFail"} THEN acApplied \cup {i}
                       ELSE acApplied
       /\ acOutcomes' = Append(acOutcomes, AcOutcome(ItemOutcomeKind(r), i))
       /\ IF r \in {"PrepareFail", "ApplyFail"}
          THEN /\ acItem' = [acItem EXCEPT ![i] = "err"]
               /\ \E close \in BOOLEAN : acClosed' = (acClosed \/ close)
          ELSE /\ acItem' = [acItem EXCEPT ![i] = "ok"]
               /\ UNCHANGED acClosed
  /\ AcUnchangedStates
  /\ UNCHANGED fnVars
  /\ UNCHANGED acSerialized
  /\ UNCHANGED <<acPc, acErrors, acDiscovered, acResult>>

\* The traversal has nothing left to start: the closure returns.
AcStreamEnd ==
  /\ acPc = "stream"
  /\ \A i \in Items : ~AcStartable(i)
  /\ acPc' = "returned"
  /\ AcUnchangedStates
  /\ UNCHANGED fnVars
  /\ UNCHANGED acSerialized
  /\ UNCHANGED <<acOutcomes, acItem, acPrepared, acApplied, acErrors, acClosed,
                 acDiscovered, acResult>>

\* The collating closure: the Err it returns for an outcome, or "none".
CollateError(o) ==
  IF o.kind \in {"StatesCurrentOutOfSync", "StatesGoalOutOfSync",
                 "StatesCurrentReadCmdError", "StatesGoalReadCmdError",
                 "DiscoverCurrentCmdError", "DiscoverGoalCmdError",
                 "StatesDowncastError"}
  THEN o.kind ELSE "none"

AcCollate ==
  /\ acPc # "done"
  /\ acResult.tag = "none"
  /\ acOutcomes # <<>>
  /\ LET o == Head(acOutcomes) IN
     /\ acOutcomes' = Tail(acOutcomes)
     /\ IF CollateError(o) # "none"
        THEN /\ acResult' = [tag |-> "Err", error |-> CollateError(o), errors |-> {}]
             /\ UNCHANGED acErrors
        ELSE /\ acErrors' = IF o.kind \in {"PrepareFail", "Fail"}
                            THEN acErrors \cup {o.item_id} ELSE acErrors
             /\ UNCHANGED acResult
  /\ AcUnchangedStates
  /\ UNCHANGED fnVars
  /\ UNCHANGED acSerialized
  /\ UNCHANGED <<acPc, acItem, acPrepared, acApplied, acClosed, acDiscovered>>

\* CmdBase::exec returns: the Err of the collating closure, or the CmdOutcome
\* once the first closure has returned and every outcome has been collated.
AcReturn ==
  /\ acPc = "returned"
  /\ acResult.tag = "Err" \/ acOutcomes = <<>>
  /\ acPc' = "done"
  /\ acResult' = IF acResult.tag = "Err" THEN acResult
                 ELSE [tag |-> "Ok", error |-> "none", errors |-> acErrors]
  /\ AcUnchangedStates
  /\ UNCHANGED fnVars
  /\ UNCHANGED acSerialized
  /\ UNCHANGED <<acOutcomes, acItem, acPrepared, acApplied, acErrors, acClosed,
                 acDiscovered>>

\* ApplyCmd::exec_with: exec_internal(.., false).await?, then
\* serialize_current for every CmdOutcome returned in an Ok.
AcSerializesCurrent(r) == r.tag = "Ok"

AcExecWith ==
  /\ acPc = "done"
  /\ acPc' = "exec_with_returned"
  /\ IF AcSerializesCurrent(acResult)
     THEN acSerialized' \in SerializeOutcomes
     ELSE UNCHANGED acSerialized
  /\ AcUnchangedStates
  /\ UNCHANGED fnVars
  /\ UNCHANGED <<acOutcomes, acItem, acPrepared, acApplied, acErrors, acClosed,
                 acDiscovered, acResult>>

NextApplyCmd ==
  \/ AcStatesCurrentRead
  \/ AcCurrentSync
  \/ AcGoalSync
  \/ \E i \in Items : AcItemApplyExec(i)
  \/ AcStreamEnd
  \/ AcCollate
  \/ AcReturn
  \/ AcExecWith

SpecApplyCmd == InitApplyCmd /\ [][NextApplyCmd]_vars

\* ============================================ functions checked on their own
\* The engine and ApplyCmd stand still while one function is applied to
\* arguments drawn from bounded sets.
FnsIdle ==
  /\ cmd = [name |-> "CleanCmd", sync |-> "Both", ts |-> "Cleaned"]
  /\ graph = GraphChain
  /\ EngineInit
  /\ drainTask = "off"
  /\ pc = "off"
  /\ AcIdle

FnsUnchanged == UNCHANGED <<graph, engineVars, acVars>>

\* ---------------------------------------- ApplyExecCmdBlock::outcome_collate
\* The accumulator (errors, states_applied, states_target) of the block.
\* outcome_acc_init starts states_applied as a copy of StatesCurrent.
CollateAccs ==
  [errors : {{}, {1}},
   states_applied : {[i \in Items |-> "none"], [i \in Items |-> "current"]},
   states_target : {[i \in Items |-> "none"], [i \in Items |-> "goal"]}]

\* ItemApplyOutcome values: a PrepareFail carries an ItemApplyPartial, whose
\* fields are Options; Success and Fail carry an ItemApply, whose
\* state_target is set.
CollateOutcomes ==
  {o \in [kind : {"PrepareFail", "Success", "Fail"}, item_id : Items,
          state_applied : {"none", "current", "applied"},
          state_target : {"none", "target"}] :
     /\ o.kind # "PrepareFail" => o.state_target = "target"
     /\ o.kind = "PrepareFail" => o.state_applied = "none"}

CollateCalls ==
  [fn : {"outcome_collate"}, acc : CollateAccs, outcome : CollateOutcomes,
   apply_for : {"Ensure", "Clean"}]

\* A collate that keeps the state_applied of Success only.
CollateStateAppliedSuccessOnly(sa, o) ==
  IF o.kind = "Success" /\ o.state_applied # "none"
  THEN [sa EXCEPT ![o.item_id] = o.state_applied] ELSE sa

\* outcome_collate: Success and Fail insert state_applied when it is Some.
CollateStateApplied(sa, o) ==
  IF o.kind \in {"Success", "Fail"} /\ o.state_applied # "none"
  THEN [sa EXCEPT ![o.item_id] = o.state_applied] ELSE sa

\* A collate that saves the state_target whatever the block applies for.
CollateStateTargetForAnyApply(st, o, apply_for) ==
  IF o.state_target # "none"
  THEN [st EXCEPT ![o.item_id] = o.state_target] ELSE st

\* outcome_collate: for Ensure the state_target is inserted, for PrepareFail
\* when it is Some.
CollateStateTarget(st, o, apply_for) ==
  IF apply_for = "Ensure" /\ o.state_target # "none"
  THEN [st EXCEPT ![o.item_id] = o.state_target] ELSE st

OutcomeCollateAcc(acc, o, apply_for) ==
  [errors |-> CollateErrors(acc.errors, o),
   states_applied |-> CollateStateApplied(acc.states_applied, o),
   states_target |-> CollateStateTarget(acc.states_target, o, apply_for)]

OutcomeCollateCall ==
  /\ call.fn = "outcome_collate"
  /\ ret = NoRet
  /\ ret' = [tag |-> "Ok", acc |-> OutcomeCollateAcc(call.acc, call.outcome, call.apply_for)]
  /\ UNCHANGED call
  /\ FnsUnchanged

\* ------------------------------- ApplyExecCmdBlock: the outcomes of a block
\* What an item sent during the block: nothing, or its one ItemApplyOutcome.
\* A Success of an item whose check was ExecNotRequired carries the current
\* state as state_applied.
ItemSents ==
  {o \in [kind : {"NotSent", "PrepareFail", "Success", "Fail"},
          state_applied : {"none", "current", "applied"}] :
     /\ o.kind \in {"NotSent", "PrepareFail"} => o.state_applied = "none"
     /\ o.kind = "Fail" => o.state_applied # "current"}

\* The input StatesCurrent of the block, what each item sent, and the order
\* in which the outcomes are received: by item, forwards or backwards.
BlockCollateCalls ==
  [fn : {"block_collate"},
   states_current : {[i \in Items |-> "current"],
                     [i \in Items |-> IF i = 1 THEN "none" ELSE "current"]},
   sent : [Items -> ItemSents],
   rev : BOOLEAN,
   apply_for : {"Ensure", "Clean"}]

\* An accumulator whose applied states start empty.
OutcomeAccInitEmpty(current, target) ==
  [errors |-> {}, states_applied |-> [i \in Items |-> "none"],
   states_target |-> target]

\* outcome_acc_init: the applied states start as a copy of StatesCurrent, the
\* target states as a copy of the input target states; no errors.
OutcomeAccInit(current, target) ==
  [errors |-> {}, states_applied |-> current, states_target |-> target]

\* The ItemApplyOutcome that item i sent.
SentOutcome(c, i) ==
  [kind |-> c.sent[i].kind, item_id |-> i,
   state_applied |-> c.sent[i].state_applied,
   state_target |-> IF c.sent[i].kind = "PrepareFail" THEN "none" ELSE "target"]

\* outcome_collate applied to every outcome received, item k first.
RECURSIVE CollateFrom(_, _, _)
CollateFrom(acc, c, k) ==
  IF k < 1 \/ k > NumItems THEN acc
  ELSE CollateFrom(
         IF c.sent[k].kind = "NotSent" THEN acc
         ELSE OutcomeCollateAcc(acc, SentOutcome(c, k), c.apply_for),
         c, IF c.rev THEN k - 1 ELSE k + 1)

BlockCollate(c) ==
  CollateFrom(OutcomeAccInit(c.states_current, [i \in Items |-> "goal"]), c,
              IF c.rev THEN NumItems ELSE 1)

BlockCollateCall ==
  /\ call.fn = "block_collate"
  /\ ret = NoRet
  /\ ret' = [tag |-> "Ok", acc |-> BlockCollate(call)]
  /\ UNCHANGED call
  /\ FnsUnchanged

\* ------------------------------------------ ItemSpecWrapper::clean_prepare
\* The caller's StatesCurrent entry for the item ("none": no entry), and what
\* the item's functions return when clean_prepare runs them.
CleanPrepareCalls ==
  [fn : {"clean_prepare"},
   states_current : {"none", "a"},
   try_state_current : {"Err", "None", "a", "b"},
   state_clean : {"Err", "clean"},
   state_diff : {"Err", "diff"},
   apply_check : {"Err", "ExecRequired", "ExecNotRequired"}]

\* clean_prepare: state_current is what state_current_try_exec returned, or
\* state_clean when that is None.
CleanStateCurrent(c) ==
  IF c.try_state_current # "None" THEN c.try_state_current ELSE c.state_clean

PrepareErr(sc, st) == [tag |-> "Err", state_current |-> sc, state_target |-> st]

\* ItemApplyPartial::new(): every field None.
ItemApplyPartialNew ==
  [state_current |-> "none", state_target |-> "none", state_diff |-> "none",
   apply_check |-> "none"]

\* A prepare that returns ExecNotRequired with no state_applied.
StateAppliedNone(check, state_current) == "none"

\* match apply_check: ExecRequired => None, ExecNotRequired =>
\* item_apply_partial.state_current.clone().
PrepareStateApplied(check, state_current) ==
  IF check = "ExecNotRequired" THEN state_current ELSE "none"

\* A prepare that does not store what apply_check returned.
PartialWithoutCheck(p, check) == p

\* item_apply_partial.apply_check = Some(apply_check).
PartialWithCheck(p, check) == [p EXCEPT !.apply_check = RecordCheck(check)]

\* ItemApply::try_from((item_apply_partial, state_applied)).expect(..): an
\* ItemApply when the four fields are Some, a panic otherwise.
ItemApplyTryFrom(p, state_applied) ==
  IF "none" \in {p.state_current, p.state_target, p.state_diff, p.apply_check}
  THEN [tag |-> "Panic"]
  ELSE [tag |-> "Ok", state_current |-> p.state_current,
        state_target |-> p.state_target, state_diff |-> p.state_diff,
        apply_check |-> p.apply_check, state_applied |-> state_applied]

CleanPrepare(c) ==
  IF c.try_state_current = "Err" THEN PrepareErr("none", "none")
  ELSE IF CleanStateCurrent(c) = "Err" THEN PrepareErr("none", "none")
  ELSE IF c.state_clean = "Err" THEN PrepareErr(CleanStateCurrent(c), "none")
  ELSE IF c.state_diff = "Err" \/ c.apply_check = "Err"
  THEN PrepareErr(CleanStateCurrent(c), c.state_clean)
  ELSE ItemApplyTryFrom(
         PartialWithCheck([state_current |-> CleanStateCurrent(c),
                           state_target |-> c.state_clean,
                           state_diff |-> c.state_diff,
                           apply_check |-> "none"], c.apply_check),
         PrepareStateApplied(c.apply_check, CleanStateCurrent(c)))

CleanPrepareCall ==
  /\ call.fn = "clean_prepare"
  /\ ret = NoRet
  /\ ret' = CleanPrepare(call)
  /\ UNCHANGED call
  /\ FnsUnchanged

\* ---------------------------------------- ItemSpecWrapper::ensure_prepare
\* What the item's functions return when ensure_prepare calls them.
EnsurePrepareCalls ==
  [fn : {"ensure_prepare"},
   state_current : {"Err", "a", "b"},
   state_goal : {"Err", "g"},
   state_diff : {"Err", "diff"},
   apply_check : {"Err", "ExecRequired", "ExecNotRequired"}]

\* The item functions in the order ensure_prepare calls them.
EnsureSteps == <<"state_current", "state_goal", "state_diff", "apply_check">>

\* A prepare that returns an empty partial with the error.
PartialOnErrorEmpty(p) == ItemApplyPartialNew

\* return Err((error, item_apply_partial.into())).
PartialOnError(p) == p

\* Err((error, partial)) returned after the n-th function, which failed.
EnsureErr(p, n) ==
  [tag |-> "Err", error |-> EnsureSteps[n]] @@ PartialOnError(p)
    @@ [ran |-> SubSeq(EnsureSteps, 1, n)]

\* ensure_prepare: each function is called when the ones before it returned
\* Ok, and its value stored in the partial; ran is the functions called.
EnsurePrepare(c) ==
  LET p0 == ItemApplyPartialNew
      p1 == [p0 EXCEPT !.state_current = c.state_current]
      p2 == [p1 EXCEPT !.state_target = c.state_goal]
      p3 == [p2 EXCEPT !.state_diff = c.state_diff]
      p4 == PartialWithCheck(p3, c.apply_check)
  IN IF c.state_current = "Err" THEN EnsureErr(p0, 1)
     ELSE IF c.state_goal = "Err" THEN EnsureErr(p1, 2)
     ELSE IF c.state_diff = "Err" THEN EnsureErr(p2, 3)
     ELSE IF c.apply_check = "Err" THEN EnsureErr(p3, 4)
     ELSE ItemApplyTryFrom(p4, PrepareStateApplied(c.apply_check, p4.state_current))
            @@ [ran |-> EnsureSteps]

EnsurePrepareCall ==
  /\ call.fn = "ensure_prepare"
  /\ ret = NoRet
  /\ ret' = EnsurePrepare(call)
  /\ UNCHANGED call
  /\ FnsUnchanged

\* ------------------------------------------------- Resources: borrows
\* The slot of one type in Resources: absent, present and not borrowed,
\* present with immutable borrows outstanding, or with a mutable borrow.
Cells == {"absent", "free", "borrowed_imm", "borrowed_mut"}

\* try_borrow::<T>(): a Ref, or the BorrowFail.
TryBorrow(cell) ==
  CASE cell = "absent" -> "ValueNotFound"
    [] cell = "borrowed_mut" -> "BorrowConflictImm"
    [] OTHER -> "Ok"

\* borrow_mut::<T>() returns the RefMut itself, never a Result: when the
\* slot is free the caller gets the RefMut, otherwise no value is returned.
BorrowMut(cell) == IF cell = "free" THEN "Ok" ELSE "Panic"

\* ------------------------------------------ MappingFnImpl::map / try_map
\* fn_map is None in a MappingFnImpl that was deserialized; fn_returns is
\* what the mapping function returns for the value of A0.
MapCalls ==
  [fn : {"map", "try_map"},
   field_name : {"None", "Some"},
   ctx_len : 0..1,
   fn_map : {"None", "Some"},
   cell : Cells,
   fn_returns : {"None", "Some"}]

MapErr(e, n) == [tag |-> "Err", error |-> e, ctx_len |-> n]

\* value_resolution_ctx.push(..) when the field has a name.
CtxPushed(c) == c.ctx_len + (IF c.field_name = "Some" THEN 1 ELSE 0)

\* A map that turns a value that is not found into a borrow conflict.
MapNotFoundIsConflict(bf, n) == MapErr("FromMapBorrowConflict", n)

\* map, Err(borrow_fail) arm: ValueNotFound is FromMap, a conflict is
\* FromMapBorrowConflict.
MapOnBorrowFail(bf, n) ==
  IF bf = "ValueNotFound" THEN MapErr("FromMap", n)
  ELSE MapErr("FromMapBorrowConflict", n)

\* A try_map that fails with FromMap when the value is not found.
TryMapNotFoundIsFromMap(bf, n) ==
  IF bf = "ValueNotFound" THEN MapErr("FromMap", n)
  ELSE MapErr("FromMapBorrowConflict", n)

\* try_map, Err(borrow_fail) arm: ValueNotFound is Ok(None), a conflict is
\* FromMapBorrowConflict.
TryMapOnBorrowFail(bf, n) ==
  IF bf = "ValueNotFound" THEN [tag |-> "Ok", value |-> "None", ctx_len |-> n]
  ELSE MapErr("FromMapBorrowConflict", n)

Map(c) ==
  IF c.fn_map = "None" THEN [tag |-> "Panic"]
  ELSE IF TryBorrow(c.cell) = "Ok"
  THEN IF c.fn_returns = "Some"
       THEN [tag |-> "Ok", value |-> "Some", ctx_len |-> CtxPushed(c)]
       ELSE MapErr("FromMap", CtxPushed(c))
  ELSE MapOnBorrowFail(TryBorrow(c.cell), CtxPushed(c))

TryMap(c) ==
  IF c.fn_map = "None" THEN [tag |-> "Panic"]
  ELSE IF TryBorrow(c.cell) = "Ok"
  THEN [tag |-> "Ok", value |-> c.fn_returns, ctx_len |-> CtxPushed(c)]
  ELSE TryMapOnBorrowFail(TryBorrow(c.cell), CtxPushed(c))

MapCall ==
  /\ call.fn = "map"
  /\ ret = NoRet
  /\ ret' = Map(call)
  /\ UNCHANGED call
  /\ FnsUnchanged

TryMapCall ==
  /\ call.fn = "try_map"
  /\ ret = NoRet
  /\ ret' = TryMap(call)
  /\ UNCHANGED call
  /\ FnsUnchanged

\* --------------------------------- ItemSpecWrapper::state_current_exec
\* The item's state_current returns a state or an error; the slot of
\* Current<State>, inserted at set up, may be borrowed by another future.
StateCurrentExecCalls ==
  [fn : {"state_current_exec"},
   state_current : {"Err", "a"},
   cell : Cells \ {"absent"}]

StateCurrentExec(c) ==
  IF c.state_current = "Err" THEN [tag |-> "Err", error |-> "item"]
  ELSE IF BorrowMut(c.cell) = "Ok"
  THEN [tag |-> "Ok", value |-> c.state_current,
        marker |-> StateCurrentMarker(NoMarker)]
  ELSE [tag |-> "Panic"]

StateCurrentExecCall ==
  /\ call.fn = "state_current_exec"
  /\ ret = NoRet
  /\ ret' = StateCurrentExec(call)
  /\ UNCHANGED call
  /\ FnsUnchanged

\* ------------------------------------------------ ApplyCmd::states_in_sync
\* The stored and the discovered States of the items of the flow; "bad" is a
\* stored state that does not downcast to the item's State type.
StatesInSyncCalls ==
  [fn : {"states_in_sync"},
   states_stored : [Items -> {"none", "a", "bad"}],
   states : [Items -> {"none", "a", "b"}]]

StatesInSyncCall ==
  /\ call.fn = "states_in_sync"
  /\ ret = NoRet
  /\ ret' = [tag |-> "in_sync", value |-> states_in_sync(call.states_stored, call.states)]
  /\ UNCHANGED call
  /\ FnsUnchanged

\* ------------------------------------------------------------ tar_x item
\* The files of the tar and of the destination directory: per path the
\* modification time of the file there, 0 when there is none.
MaxPath == 2
MaxMtime == 2
Paths == 1..MaxPath
Dirs == [Paths -> 0..MaxMtime]

\* FileMetadatas of a directory or tar: one FileMetadata per file, in the
\* order of the paths.
RECURSIVE FileMetadatasFrom(_, _)
FileMetadatasFrom(d, p) ==
  IF p > MaxPath THEN <<>>
  ELSE (IF d[p] = 0 THEN <<>> ELSE <<[path |-> p, modified_time |-> d[p]]>>)
       \o FileMetadatasFrom(d, p + 1)

FileMetadatasOf(d) == FileMetadatasFrom(d, 1)

\* The clean state of the item: nothing is extracted.
TarXStateClean == <<>>

NoDiffAcc == [added |-> <<>>, modified |-> <<>>, removed |-> <<>>]

\* The loop of TarXStateDiffFnSpec::state_diff over the two iterators.
RECURSIVE DiffWalk(_, _, _)
DiffWalk(cur, des, acc) ==
  CASE cur # <<>> /\ des # <<>> ->
         IF Head(cur).path < Head(des).path
         THEN DiffWalk(Tail(cur), des, [acc EXCEPT !.removed = Append(@, Head(cur))])
         ELSE IF Head(cur).path > Head(des).path
         THEN DiffWalk(cur, Tail(des), [acc EXCEPT !.added = Append(@, Head(des))])
         ELSE IF Head(cur).modified_time # Head(des).modified_time
         THEN DiffWalk(Tail(cur), Tail(des),
                       [acc EXCEPT !.modified = Append(@, Head(des))])
         ELSE DiffWalk(Tail(cur), Tail(des), acc)
    [] cur # <<>> /\ des = <<>> -> [acc EXCEPT !.removed = @ \o cur]
    [] cur = <<>> /\ des # <<>> -> [acc EXCEPT !.added = @ \o des]
    [] OTHER -> acc

\* TarXStateDiffFnSpec::state_diff.
TarXStateDiff(file_metadatas_current, file_metadatas_desired) ==
  LET acc == DiffWalk(file_metadatas_current, file_metadatas_desired, NoDiffAcc) IN
  IF acc.added = <<>> /\ acc.modified = <<>> /\ acc.removed = <<>>
  THEN [tag |-> "ExtractionInSync"]
  ELSE [tag |-> "ExtractionOutOfSync", added |-> acc.added,
        modified |-> acc.modified, removed |-> acc.removed]

\* An apply_check that asks for the extraction whatever the diff is.
ApplyCheckAlwaysRequired(diff) == "ExecRequired"

\* TarXApplyFns::apply_check.
TarXApplyCheck(diff) ==
  IF diff.tag = "ExtractionInSync" THEN "ExecNotRequired" ELSE "ExecRequired"

\* DownloadCleanOpSpec::check.
DownloadCleanCheck(file_state_current, file_state_desired) ==
  IF file_state_current # file_state_desired THEN "ExecRequired" ELSE "ExecNotRequired"

\* tar::Archive::unpack(dest): every entry of the tar is written to dest with
\* the entry's modification time.
Unpack(tar, dest) == [p \in Paths |-> IF tar[p] # 0 THEN tar[p] ELSE dest[p]]

\* A removal that leaves every file where it is.
RemoveNothing(dest, removed) == dest

\* remove_file for each FileMetadata of removed.
RemoveFiles(dest, removed) ==
  [p \in Paths |-> IF \E k \in 1..Len(removed) : removed[k].path = p THEN 0 ELSE dest[p]]

\* An apply that unpacks the tar and removes nothing.
TarXApplyUnpackOnly(tar_exists, tar, dest, state_desired, diff) ==
  [dest |-> IF tar_exists THEN Unpack(tar, dest) ELSE dest, state |-> state_desired]

\* TarXApplyFns::apply: unpack the tar if it exists, remove the files in the
\* diff's removed, return the desired state.
TarXApply(tar_exists, tar, dest, state_desired, diff) ==
  LET unpacked == IF tar_exists THEN Unpack(tar, dest) ELSE dest IN
  [dest |-> IF diff.tag = "ExtractionOutOfSync"
            THEN RemoveFiles(unpacked, diff.removed) ELSE unpacked,
   state |-> state_desired]

\* The goal state of the item: the files of the tar, none when there is no tar.
TarXStateGoal(tar_exists, tar) == IF tar_exists THEN FileMetadatasOf(tar) ELSE <<>>

\* One run of item_apply_exec for the item with target state state_target:
\* prepare (current state, diff, apply_check), the short circuit on
\* ExecNotRequired, else apply.
TarXItemApplyExec(tar_exists, tar, dest, state_target) ==
  LET state_current == FileMetadatasOf(dest)
      diff == TarXStateDiff(state_current, state_target)
      ia == [apply_check |-> RecordCheck(TarXApplyCheck(diff)),
             state_applied |-> "none"]
  IN  IF ShortCircuits(ia)
      THEN [apply_check |-> ia.apply_check, applied |-> FALSE, dest |-> dest]
      ELSE [apply_check |-> ia.apply_check, applied |-> TRUE,
            dest |-> TarXApply(tar_exists, tar, dest, state_target, diff).dest]

\* Ensure: the target is the goal state. Clean: the target is the clean state.
TarXEnsure(tar_exists, tar, dest) ==
  TarXItemApplyExec(tar_exists, tar, dest, TarXStateGoal(tar_exists, tar))
TarXClean(tar_exists, tar, dest) ==
  TarXItemApplyExec(tar_exists, tar, dest, TarXStateClean)

StateDiffCheckCalls ==
  [fn : {"tar_x_state_diff_apply_check"}, current : Dirs, desired : Dirs]

StateDiffCheckCall ==
  /\ call.fn = "tar_x_state_diff_apply_check"
  /\ ret = NoRet
  /\ LET diff == TarXStateDiff(FileMetadatasOf(call.current),
                               FileMetadatasOf(call.desired)) IN
     ret' = [tag |-> "check", diff |-> diff, apply_check |-> TarXApplyCheck(diff)]
  /\ UNCHANGED call
  /\ FnsUnchanged

FileStates == {"none", "f1", "f2"}

DownloadCleanCheckCalls ==
  [fn : {"download_clean_check"}, current : FileStates, desired : FileStates]

DownloadCleanCheckCall ==
  /\ call.fn = "download_clean_check"
  /\ ret = NoRet
  /\ ret' = [tag |-> "check", apply_check |-> DownloadCleanCheck(call.current, call.desired)]
  /\ UNCHANGED call
  /\ FnsUnchanged

\* Two commands run one after the other on the item, nothing else touching
\* the destination directory: Ensure then Ensure, or Ensure then Clean.
TwoCmdsCalls ==
  [fn : {"ensure_ensure", "ensure_clean"}, tar_exists : BOOLEAN, tar : Dirs, dest : Dirs]

TwoCmdsCall ==
  /\ call.fn \in {"ensure_ensure", "ensure_clean"}
  /\ ret = NoRet
  /\ LET first == TarXEnsure(call.tar_exists, call.tar, call.dest)
         second == IF call.fn = "ensure_ensure"
                   THEN TarXEnsure(call.tar_exists, call.tar, first.dest)
                   ELSE TarXClean(call.tar_exists, call.tar, first.dest)
     IN  ret' = [tag |-> "ran", first |-> first, second |-> second]
  /\ UNCHANGED call
  /\ FnsUnchanged

\* ------------------------------------- CmdCtx builder: params specs on build
\* Item ids of the flows the command context is built for.
ItemIds == {"original_id", "new_id", "mismatch_id"}

\* The item graphs: one or two items, in the order they were added.
Flows ==
  {<<a>> : a \in ItemIds}
    \cup {f \in {<<a, b>> : a \in ItemIds, b \in ItemIds} : f[1] # f[2]}

FlowIds(flow) == {flow[k] : k \in 1..Len(flow)}

\* A registry that knows the params spec type of every item id.
TypeRegOfAllIds(flow) == ItemIds

\* params_and_state_register is called for each item of the flow: the
\* registry used to deserialize the ParamsSpecsFile holds their ids.
ParamsSpecsTypeReg(flow) == FlowIds(flow)

\* The stored params specs deserialize when each stored id is registered.
ParamsSpecsDeserializes(stored, flow) == stored \subseteq ParamsSpecsTypeReg(flow)

\* The ids of the flow, in order, with neither a provided nor a stored spec.
ItemIdsWithNoParamsSpecs(flow, provided, stored) ==
  LET Without(id) == id \notin provided /\ id \notin stored IN
  SelectSeq(flow, Without)

\* Building the command context: the stored params specs are deserialized,
\* then merged with the ones provided to the builder.
CmdCtxBuild(stored, flow, provided) ==
  IF ~ParamsSpecsDeserializes(stored, flow)
  THEN [tag |-> "ParamsSpecsDeserialize"]
  ELSE LET none == ItemIdsWithNoParamsSpecs(flow, provided, stored)
           provided_mismatches == provided \ FlowIds(flow)
           stored_mismatches == stored \ FlowIds(flow)
       IN  IF none = <<>> /\ provided_mismatches = {} /\ stored_mismatches = {}
           THEN [tag |-> "Ok"]
           ELSE [tag |-> "ParamsSpecsMismatch",
                 item_ids_with_no_params_specs |-> none,
                 params_specs_provided_mismatches |-> provided_mismatches,
                 params_specs_stored_mismatches |-> stored_mismatches]

\* stored: the ids in the params specs file an earlier build wrote.
CmdCtxBuildCalls ==
  [fn : {"cmd_ctx_build"}, stored : SUBSET ItemIds, flow : Flows,
   provided : SUBSET ItemIds]

CmdCtxBuildCall ==
  /\ call.fn = "cmd_ctx_build"
  /\ ret = NoRet
  /\ ret' = CmdCtxBuild(call.stored, call.flow, call.provided)
  /\ UNCHANGED call
  /\ FnsUnchanged

FnCalls ==
  CollateCalls \cup CleanPrepareCalls \cup MapCalls \cup StateCurrentExecCalls
    \cup StatesInSyncCalls \cup EnsurePrepareCalls \cup BlockCollateCalls
    \cup StateDiffCheckCalls \cup DownloadCleanCheckCalls \cup TwoCmdsCalls
    \cup CmdCtxBuildCalls

InitFns ==
  /\ FnsIdle
  /\ call \in FnCalls
  /\ ret = NoRet

NextFns ==
  \/ OutcomeCollateCall
  \/ CleanPrepareCall
  \/ MapCall
  \/ TryMapCall
  \/ StateCurrentExecCall
  \/ StatesInSyncCall
  \/ EnsurePrepareCall
  \/ BlockCollateCall
  \/ StateDiffCheckCall
  \/ DownloadCleanCheckCall
  \/ TwoCmdsCall
  \/ CmdCtxBuildCall

SpecFns == InitFns /\ [][NextFns]_vars

\* ============================================ CmdExecution, output_progress
\* The commands run with the output_progress feature: a pipeline whose apply
\* block fails its input_fetch, and one that runs to the apply block.
ProgressCmds == {c \in Cmds : c.name = "CleanCmd" /\ c.sync \in {"None", "Goal"}
                                /\ c.ts = "Cleaned"}

InitProgress ==
  /\ cmd \in ProgressCmds
  /\ graph = GraphChain
  /\ EngineInit
  /\ drainTask = "unspawned"
  /\ pc = "build"
  /\ AcIdle
  /\ FnIdle

\* cmd_outcome_task: the steps of the builder, the fold, the streams and
\* outcome_extract, and the return of exec_with.
CmdOutcomeTask ==
  \/ WithCmdBlock
  \/ Build
  \/ BlockExecSingle
  \/ BlockStartItemWise
  \/ \E i \in Items : StreamQueue(i)
  \/ \E i \in Items : StreamLaunch(i)
  \/ StreamInterrupt
  \/ \E i \in Items : ItemPrepare(i)
  \/ \E i \in Items : ItemApply(i)
  \/ \E i \in Items : ItemDiscover(i)
  \/ OutcomeCollate
  \/ BlockEndItemWise
  \/ OutcomeExtract
  \/ ExecWith

\* progress_render_task: the loop on progress_rx.recv().
ProgressRenderTask == ProgressRecv \/ ProgressRecvNone

NextProgress ==
  \/ CmdOutcomeTask
  \/ ProgressRenderTask
  \/ Interrupt

\* futures::join!(cmd_outcome_task, progress_render_task) polls both tasks
\* until both have completed: neither is left ready and never polled.
SpecProgress ==
  /\ InitProgress
  /\ [][NextProgress]_vars
  /\ WF_vars(CmdOutcomeTask)
  /\ WF_vars(ProgressRenderTask)

\* =================================================================== claims
LastBlockIsApply ==
  /\ execLog # <<>>
  /\ BlockDesc(execLog[Len(execLog)][3]).itemFn = "apply"

LastApplyFor == StatesTsApplyFor(BlockDesc(execLog[Len(execLog)][3]).ts)

\* C1: once block n has failed (InputFetch, Exec, ItemError or Interrupt),
\* no block with an index greater than n is executed.
C1_NoBlockAfterFailure ==
  foldResult.tag = "Err" =>
    \A k \in 1..Len(execLog) : execLog[k][2] <= foldResult.index

C1_Witness ==
  /\ pc = "done"
  /\ foldResult.tag = "Err"
  /\ foldResult.index < Len(cmd_blocks)
  /\ foldResult.index > 1

\* C2: blocks run one at a time in the order with_cmd_block added them, and
\* block n+1's input_fetch comes right after block n's outcome_insert, with
\* block n's outcome in Resources.
C2_SequentialInOrder ==
  /\ \A k \in 1..Len(execLog) :
       /\ execLog[k][2] \in 1..Len(addOrder)
       /\ execLog[k][3] = addOrder[execLog[k][2]]
       /\ k > 1 => execLog[k - 1][2] <= execLog[k][2]
       /\ execLog[k][1] = "input_fetch" =>
            IF k = 1 THEN execLog[k][2] = 1
            ELSE execLog[k - 1] = <<"outcome_insert", execLog[k][2] - 1,
                                    addOrder[execLog[k][2] - 1]>>
  /\ (pc = "fold" /\ blockIdx > 1) =>
       BlockDesc(addOrder[blockIdx - 1]).outcome \subseteq resources

C2_Witness ==
  /\ pc = "fold"
  /\ blockIdx = 3
  /\ execLog[Len(execLog)] = <<"outcome_insert", 2, addOrder[2]>>

\* C3 (as claimed): at a block boundary, with the interrupt already
\* signalled, the next block is not started.
C3_InterruptCheckedAtBlockBoundary ==
  [][(pc = "fold" /\ blockIdx > 1 /\ interrupted) => execLog' = execLog]_vars

\* C4: in a streaming block no item future is started once the interrupt
\* has been signalled, and the block ends only when every started future
\* has returned and its outcome has been collated.
C4_InterruptStopsLaunching ==
  [][/\ (pc = "stream" /\ pc' = "stream" /\ interrupted) => Started' \subseteq Started
     /\ (pc = "stream" /\ pc' # "stream") => (InFlight = {} /\ Started \subseteq collated)]_vars

C4_Witness ==
  /\ pc = "done"
  /\ LastBlockIsApply
  /\ result.outcome = "BlockInterrupted"
  /\ \E i \in Items : itemPhase[i] = "ready"
  /\ \E j \in Items : j \in collated /\ applyInvoked[j] # "none"

\* C5: in an apply block an item is started only after all its graph
\* predecessors (Ensure) or all its graph successors (Clean) have completed.
C5_PredecessorsComplete ==
  (pc = "stream" /\ CurDesc.itemFn = "apply") =>
    \A i \in Started :
      \A p \in (IF StatesTsApplyFor(CurDesc.ts) = "Ensure"
                THEN Predecessors(graph, i) ELSE Successors(graph, i)) :
        itemPhase[p] \in {"ok", "err"}

C5_Witness ==
  /\ pc = "stream"
  /\ CurDesc.itemFn = "apply"
  /\ StatesTsApplyFor(CurDesc.ts) = "Clean"
  /\ \E i \in Started : Successors(graph, i) # {}

\* Items the item i depends on in the direction of the last traversal.
RECURSIVE DependsOn(_, _, _)
DependsOn(i, rev, n) ==
  LET ps == IF rev THEN Successors(graph, i) ELSE Predecessors(graph, i) IN
  IF n = 0 THEN ps
  ELSE ps \cup UNION {DependsOn(p, rev, n - 1) : p \in ps}

C7_ApplyOnlyIfExecRequired ==
  \A i \in Items : applyInvoked[i] # "none" => checkReturned[i] = "ExecRequired"

C7_Witness ==
  /\ \E i \in Items :
       checkReturned[i] = "ExecNotRequired" /\ itemPhase[i] = "ok" /\ i \in collated
  /\ \E j \in Items : applyInvoked[j] = "apply"
  /\ \E j \in Items : checkReturned[j] = "ExecRequired" /\ itemPhase[j] = "ok"

\* Some item's stored state is not the discovered one, and every state
\* downcasts.
Differ(stored, states) ==
  /\ \E i \in Items : stored[i] # states[i]
  /\ \A i \in Items : stored[i] # "bad" /\ states[i] # "bad"

\* C8: with the sync check on and the stored states differing from the
\* freshly discovered ones, ApplyCmd returns Err(StatesCurrentOutOfSync) /
\* Err(StatesGoalOutOfSync), and no item's prepare or apply ever runs.
C8_OutOfSyncFailsBeforeItems ==
  /\ (/\ SyncsCurrent(acArgs.apply_stored_state_sync)
      /\ "current" \in acDiscovered
      /\ Differ(states_current_stored, states_current)) =>
       /\ acPrepared = {} /\ acApplied = {}
       /\ acPc = "done" =>
            acResult = [tag |-> "Err", error |-> "StatesCurrentOutOfSync", errors |-> {}]
  /\ (/\ acArgs.apply_stored_state_sync \in {"Goal", "Both"}
      /\ "goal" \in acDiscovered
      /\ Differ(states_goal_stored, states_goal)) =>
       /\ acPrepared = {} /\ acApplied = {}
       /\ acPc = "done" =>
            acResult = [tag |-> "Err", error |-> "StatesGoalOutOfSync", errors |-> {}]

C8_Witness ==
  /\ acPc = "done"
  /\ acArgs.apply_stored_state_sync = "Both"
  /\ acDiscovered = {"current", "goal"}
  /\ acResult.error = "StatesGoalOutOfSync"

\* C9 (as claimed): an interrupted stream always makes exec return
\* Ok(BlockInterrupted) with the Interrupted stream outcome.
C9_InterruptedReturnsBlockInterrupted ==
  (pc = "done" /\ streamState = "Interrupted") =>
    /\ result.tag = "Ok"
    /\ result.outcome = "BlockInterrupted"
    /\ result.streamState = "Interrupted"

\* C9 (amended): an interrupted stream with an empty errors map makes exec
\* return Ok(BlockInterrupted) with the Interrupted stream outcome; with
\* item errors exec returns Ok(ItemError) carrying that stream outcome.
C9_InterruptedWithoutErrorsReturnsBlockInterrupted ==
  (pc = "done" /\ streamState = "Interrupted") =>
    /\ result.tag = "Ok"
    /\ result.streamState = "Interrupted"
    /\ result.outcome = (IF errors = {} THEN "BlockInterrupted" ELSE "ItemError")

C9_Witness ==
  /\ pc = "done"
  /\ streamState = "Interrupted"
  /\ result.outcome = "BlockInterrupted"
  /\ Started # {}

\* C10: with an item error recorded in a streaming block, exec stops after
\* that block and returns Ok(ItemError) whose errors hold every failed item.
C10_ItemErrorReturnedAsOk ==
  (pc = "done" /\ errors # {}) =>
    /\ result.tag = "Ok"
    /\ result.outcome = "ItemError"
    /\ result.errors = errors
    /\ \A i \in Items : itemPhase[i] = "err" => i \in result.errors
    /\ \A k \in 1..Len(execLog) : execLog[k][2] <= result.index
    /\ execLog[Len(execLog)][2] = result.index

C10_Witness ==
  /\ pc = "done"
  /\ result.outcome = "ItemError"
  /\ result.index < Len(cmd_blocks)
  /\ result.errors # {}

\* The last block that ran is an apply block whose traversal has ended.
ApplyStreamEnded ==
  /\ pc \in {"extract", "done", "returned"}
  /\ LastBlockIsApply
  /\ execLog[Len(execLog)][1] # "input_fetch"

\* Items whose future sent one of the outcome kinds in kinds.
Emitted(kinds) == {i \in Items : emitted[i] \in kinds}

\* C11 (as claimed): in an apply block the items for which Success or Fail
\* is emitted are the items the traversal reached before the interruption.
C11_SuccessOrFailForEveryReachedItem ==
  ApplyStreamEnded => Emitted({"Success", "Fail"}) = Started

\* C11 (amended): in an apply block the items for which Success, Fail or
\* PrepareFail is emitted are the items whose futures the traversal started
\* and that have returned; when the traversal is neither interrupted nor
\* stopped by an item failure, that is every item of the graph.
C11_OutcomeForEveryStartedItem ==
  /\ (pc = "stream" /\ CurDesc.itemFn = "apply") =>
       Emitted({"Success", "Fail", "PrepareFail"}) = Started \ InFlight
  /\ ApplyStreamEnded =>
       /\ Emitted({"Success", "Fail", "PrepareFail"}) = Started
       /\ (streamState = "Finished" /\ errors = {}) => Started = Items

C11_Witness ==
  /\ ApplyStreamEnded
  /\ streamState = "Interrupted"
  /\ Emitted({"Success"}) # {}
  /\ Emitted({"PrepareFail"}) # {}
  /\ Started # Items

\* C12: in a non-dry apply block, once an item's apply has succeeded its
\* Current<State> marker holds the applied state, and it does so before the
\* future of any successor in the direction of the traversal is polled.
C12_MarkerWrittenBeforeSuccessorPolled ==
  (pc = "stream" /\ CurDesc.itemFn = "apply") =>
    \A i \in Items :
      /\ (applyInvoked[i] = "apply" /\ itemPhase[i] = "ok") =>
           marker[i].Current = "applied"
      /\ i \in Started =>
           \A p \in DirPreds(i) :
             applyInvoked[p] = "apply" => marker[p].Current = "applied"

C12_Witness ==
  /\ pc = "stream"
  /\ CurDesc.itemFn = "apply"
  /\ \E i \in Items :
       /\ itemPhase[i] = "prepare"
       /\ \E p \in DirPreds(i) :
            applyInvoked[p] = "apply" /\ marker[p].Current = "applied"

\* C13 (as claimed): when the execution has stopped at a failed block, the
\* outcome of the block before it, the last that succeeded, is in Resources.
C13_LastOutcomePreserved ==
  (pc \in {"extract", "done", "returned"} /\ foldResult.tag = "Err"
     /\ foldResult.index > 1) =>
    BlockDesc(cmd_blocks[foldResult.index - 1]).outcome \subseteq resources

\* The apply block of the command has run its traversal.
ApplyStageRan ==
  \E k \in 1..Len(execLog) :
    execLog[k][1] = "exec" /\ BlockDesc(execLog[k][3]).itemFn = "apply"

\* C14: when the apply stage of a command that is not a dry run has run,
\* serialize_current has been called on the post-apply states by the time the
\* command returns, with item errors or without: the states are in storage
\* unless the write itself failed.
C14_StatesCurrentWrittenAfterApply ==
  /\ (pc = "returned" /\ ~StatesTsDryRun(cmd.ts) /\ ApplyStageRan) =>
       serialized \in SerializeOutcomes
  /\ (acPc = "exec_with_returned" /\ acPrepared # {}) =>
       acSerialized \in SerializeOutcomes

C14_Witness ==
  /\ pc = "returned"
  /\ cmd.ts = "Cleaned"
  /\ result.outcome = "ItemError"
  /\ \E i \in Items : applyInvoked[i] = "apply" /\ emitted[i] = "Fail"
  /\ serialized = "written"

C14_WitnessApplyCmd ==
  /\ acPc = "exec_with_returned"
  /\ acErrors # {}
  /\ acApplied # {}
  /\ acSerialized = "written"

\* C15: outcome_collate on the Fail of an item records the error under the
\* item's id, and writes the item's state_applied into the applied states
\* when it is Some; when it is None the item's entry is left as it was.
C15_FailRecordsErrorAndStateApplied ==
  (call.fn = "outcome_collate" /\ ret # NoRet /\ call.outcome.kind = "Fail") =>
    LET o == call.outcome IN
    /\ o.item_id \in ret.acc.errors
    /\ ret.acc.states_applied[o.item_id] =
         (IF o.state_applied # "none" THEN o.state_applied
          ELSE call.acc.states_applied[o.item_id])

C15_Witness ==
  /\ call.fn = "outcome_collate"
  /\ ret # NoRet
  /\ call.outcome.kind = "Fail"
  /\ call.outcome.state_applied = "applied"
  /\ call.acc.states_applied[call.outcome.item_id] = "current"
  /\ ret.acc.states_applied[call.outcome.item_id] = "applied"

\* C16 (as claimed): the state_current of the ItemApply that clean_prepare
\* returns is the item's entry in the StatesCurrent passed in, or state_clean
\* when there is no entry.
C16_StateCurrentFromStatesCurrent ==
  (call.fn = "clean_prepare" /\ ret # NoRet /\ ret.tag = "Ok") =>
    ret.state_current =
      (IF call.states_current # "none" THEN call.states_current ELSE call.state_clean)

\* C17 (as claimed): try_map returns Ok(None) exactly when the argument type
\* is absent from Resources.
C17_TryMapNoneIffAbsent ==
  (call.fn = "try_map" /\ ret # NoRet) =>
    ((ret.tag = "Ok" /\ ret.value = "None") <=> call.cell = "absent")

\* C17 (amended): for a MappingFnImpl that holds its function, try_map
\* returns Ok(None) exactly when the argument type is absent from Resources
\* or the function returns None for the value that is present; an absent
\* argument always gives Ok(None).
C17_TryMapNoneIffAbsentOrFnNone ==
  (call.fn = "try_map" /\ ret # NoRet /\ call.fn_map = "Some") =>
    /\ (ret.tag = "Ok" /\ ret.value = "None") <=>
         \/ call.cell = "absent"
         \/ call.cell \in {"free", "borrowed_imm"} /\ call.fn_returns = "None"
    /\ call.cell = "absent" => (ret.tag = "Ok" /\ ret.value = "None")

C17_Witness ==
  /\ call.fn = "try_map"
  /\ call.fn_map = "Some"
  /\ call.cell = "free"
  /\ call.fn_returns = "None"
  /\ ret.tag = "Ok"
  /\ ret.value = "None"

\* C18 (as claimed): map fails with FromMap exactly when the argument type
\* is absent from Resources.
C18_MapFromMapIffAbsent ==
  (call.fn = "map" /\ ret # NoRet) =>
    ((ret.tag = "Err" /\ ret.error = "FromMap") <=> call.cell = "absent")

\* C18 (amended): for a MappingFnImpl that holds its function, map fails
\* with FromMap exactly when the argument type is absent from Resources or
\* the function returns None for the value that is present; an absent
\* argument always gives FromMap, a borrow conflict FromMapBorrowConflict.
C18_MapFromMapIffAbsentOrFnNone ==
  (call.fn = "map" /\ ret # NoRet /\ call.fn_map = "Some") =>
    /\ (ret.tag = "Err" /\ ret.error = "FromMap") <=>
         \/ call.cell = "absent"
         \/ call.cell \in {"free", "borrowed_imm"} /\ call.fn_returns = "None"
    /\ call.cell = "absent" => (ret.tag = "Err" /\ ret.error = "FromMap")
    /\ call.cell = "borrowed_mut" =>
         (ret.tag = "Err" /\ ret.error = "FromMapBorrowConflict")

C18_Witness ==
  /\ call.fn = "map"
  /\ call.fn_map = "Some"
  /\ call.cell = "borrowed_imm"
  /\ call.fn_returns = "None"
  /\ ret.tag = "Err"
  /\ ret.error = "FromMap"

\* The call asks for a borrow that conflicts with an outstanding one.
BorrowConflicts ==
  \/ call.fn \in {"map", "try_map"} /\ call.fn_map = "Some" /\ call.cell = "borrowed_mut"
  \/ /\ call.fn = "state_current_exec"
     /\ call.state_current # "Err"
     /\ call.cell \in {"borrowed_imm", "borrowed_mut"}

\* C19 (as claimed): a borrow that conflicts with an outstanding borrow, in
\* params resolution or in the write of an item's marker, is returned as an
\* error value and never panics.
C19_BorrowConflictIsErrorValue ==
  (ret # NoRet /\ BorrowConflicts) => ret.tag = "Err"

\* Every block of the execution has run and inserted its outcome.
AllBlocksOk ==
  \A i \in 1..Len(cmd_blocks) :
    \E k \in 1..Len(execLog) : execLog[k] = Ev("outcome_insert", i)

\* C20: execution_outcome_fetch is not called while blocks run; when exec
\* has returned it has been called, once, and CmdOutcome::Complete was
\* returned, exactly when every block returned Ok.
C20_FetchOnceIffAllBlocksOk ==
  /\ pc \in {"build", "fold", "stream", "extract"} => fetchCalls = 0
  /\ pc \in {"done", "returned"} =>
       /\ fetchCalls = (IF AllBlocksOk THEN 1 ELSE 0)
       /\ (result.tag = "Ok" /\ result.outcome = "Complete") <=> AllBlocksOk
       /\ AllBlocksOk <=> foldResult.tag = "Ok"

C20_Witness ==
  /\ pc = "done"
  /\ AllBlocksOk
  /\ Len(cmd_blocks) > 3
  /\ fetchCalls = 1
  /\ result.outcome = "Complete"

\* The fold has stopped at the block that returned the block error: that
\* block's event is the last one logged and no later block was run.
StoppedAtFailedBlock(what) ==
  /\ pc \in {"extract", "done", "returned"}
  /\ foldResult.tag = "Err"
  /\ execLog # <<>>
  /\ execLog[Len(execLog)] = Ev(what, foldResult.index)
  /\ \A k \in 1..Len(execLog) : execLog[k][2] <= foldResult.index

\* C21: when a block's exec returns the framework-level error e, no later
\* block is run and CmdExecution::exec returns Err(e), e being the very
\* error the block returned.
C21_ExecErrorReturnedUnchanged ==
  blockError.kind = "Exec" =>
    /\ StoppedAtFailedBlock("exec")
    /\ pc \in {"done", "returned"} =>
         /\ result.tag = "Err"
         /\ execErr = [kind |-> "E", e |-> blockError.e]

C21_Witness ==
  /\ pc = "done"
  /\ blockError = CmdBlockErrorExec("e2")
  /\ foldResult.index < Len(cmd_blocks)
  /\ foldResult.index > 1
  /\ result.tag = "Err"
  /\ execErr.kind = "E"

\* C22: when an input of a block is absent from Resources as the block is
\* reached, the block's exec is not run (single or streamed), no later
\* block is run, and CmdExecution::exec returns Err of the error built from
\* the block descriptions, the failing block's index and the fetch error.
C22_InputFetchErrorNamesBlock ==
  blockError.kind = "InputFetch" =>
    /\ StoppedAtFailedBlock("input_fetch")
    /\ \A k \in 1..Len(execLog) :
         execLog[k][2] = foldResult.index => execLog[k][1] = "input_fetch"
    /\ blockError.resource_fetch_error \in
         {BlockDesc(cmd_blocks[foldResult.index]).input[j] :
            j \in 1..Len(BlockDesc(cmd_blocks[foldResult.index]).input)}
    /\ blockError.resource_fetch_error \notin resources
    /\ pc \in {"done", "returned"} =>
         /\ result.tag = "Err"
         /\ execErr = [kind |-> "CmdExecutionError",
                       cmd_block_index |-> foldResult.index,
                       cmd_blocks |-> cmd_blocks,
                       resource_fetch_error |-> blockError.resource_fetch_error]
         /\ execLog[Len(execLog)][2] = execErr.cmd_block_index

C22_Witness ==
  /\ pc = "done"
  /\ blockError.kind = "InputFetch"
  /\ execErr.kind = "CmdExecutionError"
  /\ execErr.cmd_block_index > 1
  /\ execErr.resource_fetch_error # "none"

\* states_in_sync has returned for the call.
InSyncReturned == call.fn = "states_in_sync" /\ ret # NoRet

\* Item i is absent on both sides, or present on both with state_eq true.
ItemAgrees(i) ==
  \/ call.states_stored[i] = "none" /\ call.states[i] = "none"
  \/ /\ call.states_stored[i] # "none"
     /\ call.states[i] # "none"
     /\ StateEq(call.states_stored[i], call.states[i]) = "true"

\* Exactly one of the stored and the discovered state of item i is present.
OnePresent(i) == (call.states_stored[i] = "none") # (call.states[i] = "none")

\* state_eq was called for an item before i and returned an error: the items
\* before that one agree, so the fold reached it.
StateEqErrBefore(i) ==
  \E j \in 1..(i - 1) :
    /\ \A k \in 1..(j - 1) : ItemAgrees(k)
    /\ call.states_stored[j] # "none"
    /\ call.states[j] # "none"
    /\ StateEq(call.states_stored[j], call.states[j]) = "err"

\* C23: states_in_sync returns Ok(true) exactly when every item is absent on
\* both sides or present on both with state_eq true, and an item with
\* exactly one of the two present makes it return Ok(false).
C23_OnePresentIsOutOfSync ==
  InSyncReturned =>
    /\ (ret.value = "true") <=> (\A i \in Items : ItemAgrees(i))
    /\ \A i \in Items : OnePresent(i) => ret.value = "false"

\* C23 (amended): states_in_sync returns Ok(true) exactly when every item
\* is absent on both sides or present on both with state_eq true; an item
\* with exactly one of the two present makes it return Ok(false) unless
\* state_eq returned an error for an item before it, and then that error is
\* what states_in_sync returns.
C23_OnePresentIsOutOfSyncUnlessEarlierError ==
  InSyncReturned =>
    /\ (ret.value = "true") <=> (\A i \in Items : ItemAgrees(i))
    /\ \A i \in Items : OnePresent(i) =>
         IF StateEqErrBefore(i) THEN ret.value = "err" ELSE ret.value = "false"

C23_Witness ==
  /\ InSyncReturned
  /\ ret.value = "false"
  /\ ItemAgrees(1)
  /\ call.states_stored[1] = "a"
  /\ OnePresent(2)

\* The blocks and the outcomes that read, discover or compare goal states.
GoalSyncBlocks ==
  {"StatesGoalReadCmdBlock", "StatesDiscoverCmdBlockGoal",
   "ApplyStateSyncCheckCmdBlockGoal", "ApplyStateSyncCheckCmdBlockBoth"}
GoalSyncOutcomes ==
  {"StatesGoalOutOfSync", "StatesGoalReadCmdError", "DiscoverGoalCmdError"}

\* CleanCmd adds no block that reads, discovers or compares goal states,
\* whatever the ApplyStoredStateSync.
CleanCmdAddsNoGoalSyncBlock ==
  \A sync \in ApplyStoredStateSyncs, ts \in {"Cleaned", "CleanedDry"} :
    \A k \in 1..Len(CleanCmdBlocks(sync, ts)) :
      CleanCmdBlocks(sync, ts)[k] \notin GoalSyncBlocks

\* C24: a Clean never compares the stored goal states with discovered goal
\* states, whatever the ApplyStoredStateSync: CleanCmd adds no block that
\* reads, discovers or compares goal states, and ApplyCmd applying for Clean
\* discovers no goal states, sends no goal-sync outcome and never returns
\* StatesGoalOutOfSync.
C24_CleanNeverChecksGoalSync ==
  /\ CleanCmdAddsNoGoalSyncBlock
  /\ acArgs.apply_for = "Clean" =>
       /\ "goal" \notin acDiscovered
       /\ \A k \in 1..Len(acOutcomes) : acOutcomes[k].kind \notin GoalSyncOutcomes
       /\ acResult.error \notin GoalSyncOutcomes

C24_Witness ==
  /\ acArgs = [apply_for |-> "Clean", apply_stored_state_sync |-> "Both"]
  /\ states_goal # states_goal_stored
  /\ states_current = states_current_stored
  /\ acPc = "exec_with_returned"
  /\ acResult.tag = "Ok"
  /\ acApplied # {}

\* ensure_prepare has returned for the call.
EnsureReturned == call.fn = "ensure_prepare" /\ ret # NoRet

\* C25: when apply_check returns ExecNotRequired in ensure_prepare, the
\* ItemApply returned has state_applied equal to its state_current, the
\* state that state_current returned.
C25_ExecNotRequiredStateAppliedIsCurrent ==
  (EnsureReturned /\ call.state_current # "Err" /\ call.state_goal # "Err"
     /\ call.state_diff # "Err" /\ call.apply_check = "ExecNotRequired") =>
    /\ ret.tag = "Ok"
    /\ ret.apply_check = "ExecNotRequired"
    /\ ret.state_applied = ret.state_current
    /\ ret.state_applied = call.state_current

C25_Witness ==
  /\ EnsureReturned
  /\ ret.tag = "Ok"
  /\ ret.apply_check = "ExecNotRequired"
  /\ ret.state_applied = "b"

\* The index in EnsureSteps of the first function that returns an error for
\* the call, 5 when none does.
FirstEnsureErr ==
  IF call.state_current = "Err" THEN 1
  ELSE IF call.state_goal = "Err" THEN 2
  ELSE IF call.state_diff = "Err" THEN 3
  ELSE IF call.apply_check = "Err" THEN 4 ELSE 5

\* What the n-th function of ensure_prepare returns for the call.
EnsureStepValue(n) ==
  CASE n = 1 -> call.state_current
    [] n = 2 -> call.state_goal
    [] n = 3 -> call.state_diff
    [] n = 4 -> call.apply_check

\* The field of the partial that the n-th function fills.
PartialField(r, n) ==
  CASE n = 1 -> r.state_current
    [] n = 2 -> r.state_target
    [] n = 3 -> r.state_diff
    [] n = 4 -> r.apply_check

\* C26: ensure_prepare calls state_current, state_goal, state_diff and
\* apply_check in that order and stops at the first that errors: it returns
\* that error with a partial whose fields are exactly the values of the
\* functions that succeeded before it, and calls no later function.
C26_StopsAtFirstErrorWithPartial ==
  EnsureReturned =>
    /\ ret.ran = SubSeq(EnsureSteps, 1, IF FirstEnsureErr = 5 THEN 4 ELSE FirstEnsureErr)
    /\ FirstEnsureErr < 5 =>
         /\ ret.tag = "Err"
         /\ ret.error = EnsureSteps[FirstEnsureErr]
         /\ \A n \in 1..4 :
              PartialField(ret, n) =
                (IF n < FirstEnsureErr THEN EnsureStepValue(n) ELSE "none")
    /\ FirstEnsureErr = 5 => ret.tag = "Ok"

C26_Witness ==
  /\ EnsureReturned
  /\ ret.tag = "Err"
  /\ ret.error = "state_diff"
  /\ ret.state_current = "a"
  /\ ret.state_target = "g"
  /\ ret.state_diff = "none"
  /\ call.apply_check = "Err"

\* C27: ensure_prepare and clean_prepare never fail in the conversion of the
\* partial into the ItemApply, and every ItemApply they return as Ok has
\* state_current, state_target, state_diff and apply_check set.
C27_OkItemApplyIsComplete ==
  (call.fn \in {"ensure_prepare", "clean_prepare"} /\ ret # NoRet) =>
    /\ ret.tag \in {"Ok", "Err"}
    /\ ret.tag = "Ok" =>
         /\ ret.state_current \notin {"none", "Err"}
         /\ ret.state_target \notin {"none", "Err"}
         /\ ret.state_diff \notin {"none", "Err"}
         /\ ret.apply_check \in {"ExecRequired", "ExecNotRequired"}

C27_Witness ==
  /\ call.fn = "clean_prepare"
  /\ call.try_state_current = "None"
  /\ ret # NoRet
  /\ ret.tag = "Ok"
  /\ ret.state_diff = "diff"
  /\ ret.apply_check = "ExecRequired"

C27_WitnessEnsure ==
  /\ EnsureReturned
  /\ ret.tag = "Ok"
  /\ ret.state_diff = "diff"
  /\ ret.apply_check = "ExecRequired"

\* C28: at the end of an ApplyExecCmdBlock the applied states are the input
\* StatesCurrent with the entry of each item whose outcome carried
\* state_applied = Some(s) replaced by s; every other entry is the input's.
C28_AppliedStatesAreCurrentWithApplied ==
  (call.fn = "block_collate" /\ ret # NoRet) =>
    \A i \in Items :
      ret.acc.states_applied[i] =
        (IF call.sent[i].state_applied # "none"
         THEN call.sent[i].state_applied
         ELSE call.states_current[i])

C28_Witness ==
  /\ call.fn = "block_collate"
  /\ ret # NoRet
  /\ call.states_current[1] = "none"
  /\ call.sent[1].kind = "Success"
  /\ ret.acc.states_applied[1] = "applied"
  /\ call.sent[2].kind = "PrepareFail"
  /\ ret.acc.states_applied[2] = "current"
  /\ call.sent[NumItems].kind = "NotSent"
  /\ ret.acc.states_applied[NumItems] = "current"

\* C29: collating a PrepareFail records the error under the item's id,
\* leaves the applied states as they were, and saves the partial's
\* state_target in the target states only when applying for Ensure and the
\* state_target is Some; otherwise the target states are as they were.
C29_PrepareFailRecordsErrorKeepsApplied ==
  (call.fn = "outcome_collate" /\ ret # NoRet /\ call.outcome.kind = "PrepareFail") =>
    LET o == call.outcome IN
    /\ ret.acc.errors = call.acc.errors \cup {o.item_id}
    /\ ret.acc.states_applied = call.acc.states_applied
    /\ ret.acc.states_target =
         (IF call.apply_for = "Ensure" /\ o.state_target # "none"
          THEN [call.acc.states_target EXCEPT ![o.item_id] = o.state_target]
          ELSE call.acc.states_target)

C29_Witness ==
  /\ call.fn = "outcome_collate"
  /\ ret # NoRet
  /\ call.outcome.kind = "PrepareFail"
  /\ call.apply_for = "Ensure"
  /\ call.outcome.state_target = "target"
  /\ call.outcome.item_id = 2
  /\ call.acc.states_target[2] = "goal"
  /\ ret.acc.states_target[2] = "target"
  /\ 2 \in ret.acc.errors

C29_WitnessClean ==
  /\ call.fn = "outcome_collate"
  /\ ret # NoRet
  /\ call.outcome.kind = "PrepareFail"
  /\ call.apply_for = "Clean"
  /\ call.outcome.state_target = "target"
  /\ ret.acc.states_target = call.acc.states_target

\* The last block that ran is a streaming block whose traversal has ended.
StreamBlockEnded ==
  /\ pc \in {"extract", "done", "returned"}
  /\ execLog # <<>>
  /\ BlockDesc(execLog[Len(execLog)][3]).kind = "ItemWise"
  /\ execLog[Len(execLog)][1] # "input_fetch"

C31_DrainTaskEndsAfterFold ==
  (pc = "done") ~> (progress_tx = 0 /\ drainTask = "ended" /\ pc = "returned")

C31_Witness_DrainEndedAfterFailedBlock ==
  /\ drainTask = "ended"
  /\ pc = "returned"
  /\ progress_tx = 0
  /\ foldResult.tag = "Err"
  /\ foldResult.kind = "ItemError"


\* C32: a progress send never blocks or fails an item.  Whatever the progress
\* channel holds, a full channel included, the item future can take its next
\* step with each of its results; and an item that had a progress message
\* dropped ran its function and emitted its outcome like any other item.
ItemAtPrepare(i) ==
  pc = "stream" /\ CurDesc.itemFn = "apply" /\ itemPhase[i] = "prepare"

ItemAtApply(i) ==
  pc = "stream" /\ CurDesc.itemFn = "apply" /\ itemPhase[i] = "apply"

OutcomeAsIfDelivered(i) ==
  /\ itemPhase[i] = "ok" <=> emitted[i] = "Success"
  /\ itemPhase[i] = "err" <=> emitted[i] \in {"PrepareFail", "Fail"}
  /\ itemPhase[i] = "apply" => emitted[i] = "none"
  /\ (emitted[i] = "Success" /\ checkReturned[i] = "ExecRequired")
       => applyInvoked[i] # "none"

C32_ProgressSendNeverBlocksItem ==
  \A i \in Items :
    /\ ItemAtPrepare(i) =>
         /\ ENABLED (ItemPrepare(i) /\ emitted'[i] = "PrepareFail")
         /\ ENABLED (ItemPrepare(i) /\ emitted'[i] = "Success")
         /\ ENABLED (ItemPrepare(i) /\ itemPhase'[i] = "apply")
    /\ ItemAtApply(i) =>
         /\ ENABLED (ItemApply(i) /\ emitted'[i] = "Success")
         /\ ENABLED (ItemApply(i) /\ emitted'[i] = "Fail")
    /\ i \in progressLost => OutcomeAsIfDelivered(i)

C32_Witness_DroppedMessageItemSucceeded ==
  \E i \in progressLost :
    /\ Len(progress_rx) = PROGRESS_COUNT_MAX
    /\ applyInvoked[i] = "apply"
    /\ emitted[i] = "Success"


C35_EqualStatesExecNotRequired ==
  /\ (call.fn = "tar_x_state_diff_apply_check" /\ ret.tag = "check"
        /\ FileMetadatasOf(call.current) = FileMetadatasOf(call.desired))
       => (ret.diff.tag = "ExtractionInSync" /\ ret.apply_check = "ExecNotRequired")
  /\ (call.fn = "download_clean_check" /\ ret.tag = "check"
        /\ call.current = call.desired)
       => ret.apply_check = "ExecNotRequired"

C35_Witness_EqualFileListsInSync ==
  /\ call.fn = "tar_x_state_diff_apply_check"
  /\ ret.tag = "check"
  /\ Len(FileMetadatasOf(call.current)) = MaxPath
  /\ call.current = call.desired
  /\ ret.apply_check = "ExecNotRequired"


\* C36 as stated: params specs stored for original_id and a flow with new_id
\* only make the build return ParamsSpecsMismatch with
\* item_ids_with_no_params_specs = [new_id].
RenamedCall(flowIds) ==
  /\ call.fn = "cmd_ctx_build"
  /\ ret # NoRet
  /\ call.stored = {"original_id"}
  /\ FlowIds(call.flow) = flowIds
  /\ "new_id" \notin call.provided

C36_RenamedOnlyNewIdIsMismatch ==
  RenamedCall({"new_id"}) =>
    /\ ret.tag = "ParamsSpecsMismatch"
    /\ ret.item_ids_with_no_params_specs = <<"new_id">>

\* C36 amended: with new_id only in the flow the stored params specs do not
\* deserialize and the build returns ParamsSpecsDeserialize; it returns
\* ParamsSpecsMismatch with item_ids_with_no_params_specs = [new_id] when the
\* flow holds original_id as well as new_id.
C36_RenamedIsDeserializeErrMismatchNeedsOriginal ==
  /\ RenamedCall({"new_id"}) => ret.tag = "ParamsSpecsDeserialize"
  /\ RenamedCall({"original_id", "new_id"}) =>
       /\ ret.tag = "ParamsSpecsMismatch"
       /\ ret.item_ids_with_no_params_specs = <<"new_id">>

C36_Witness_MismatchWithOriginalRegistered ==
  /\ RenamedCall({"original_id", "new_id"})
  /\ call.provided = {"mismatch_id"}
  /\ ret.tag = "ParamsSpecsMismatch"
  /\ ret.item_ids_with_no_params_specs = <<"new_id">>
  /\ ret.params_specs_provided_mismatches = {"mismatch_id"}
  /\ ret.params_specs_stored_mismatches = {}


\* C37: when an item's prepare or apply fails in an apply block, no item
\* that depends on it in the direction of the traversal (a successor for
\* Ensure, a predecessor for Clean, direct or not) is started in that
\* execution.
SentFailure(p) ==
  pc # "build" /\ CurDesc.itemFn = "apply" /\ emitted[p] \in {"PrepareFail", "Fail"}

C37_DependentsOfFailedItemNotStarted ==
  \A p \in Items :
    SentFailure(p) =>
      \A i \in Items :
        p \in DependsOn(i, CurStreamOpts.rev, NumItems)
          => (i \notin Started /\ emitted[i] = "none" /\ applyInvoked[i] = "none")

C37_Witness_DependentIdleIndependentRan ==
  /\ pc = "done"
  /\ \E p \in Items, i \in Items, j \in Items :
       /\ SentFailure(p)
       /\ checkReturned[p] = "ExecRequired"
       /\ p \in DependsOn(i, CurStreamOpts.rev, NumItems)
       /\ itemPhase[i] = "idle"
       /\ j # p /\ itemPhase[j] = "ok" /\ applyInvoked[j] # "none"


\* C38: for every ApplyStoredStateSync value the blocks CleanCmd adds ahead
\* of ApplyExecCmdBlock put StatesCurrent and StatesClean in Resources, so
\* the input_fetch of ApplyExecCmdBlock never fails and
\* execution_outcome_fetch never panics.
ApplyExecInputFetchFailed ==
  /\ foldResult.tag = "Err"
  /\ foldResult.kind = "InputFetch"
  /\ BlockDesc(cmd_blocks[foldResult.index]).itemFn = "apply"

C38_CleanPipelineFeedsApplyExec ==
  cmd.name = "CleanCmd" => (~ApplyExecInputFetchFailed /\ result.tag # "Panic")


\* Outcomes of item i that were sent on outcomes_tx in the block being run:
\* those still in the channel and the one outcome_collate has processed.
OutcomesInChannel(i) == {k \in 1..Len(outcomesQ) : outcomesQ[k].item_id = i}

OutcomesSent(i) == Cardinality(OutcomesInChannel(i)) + (IF i \in collated THEN 1 ELSE 0)

\* C39: every item future started by an apply block sends exactly one
\* ItemApplyOutcome (PrepareFail, Success or Fail) on outcomes_tx before it
\* returns, and it returns Ok if and only if that outcome is Success.
C39_OneOutcomePerItemFutureOkIffSuccess ==
  (pc # "build" /\ CurDesc.itemFn = "apply") =>
    \A i \in Items :
      /\ itemPhase[i] \in {"ok", "err"} =>
           /\ OutcomesSent(i) = 1
           /\ emitted[i] \in {"PrepareFail", "Success", "Fail"}
           /\ \A k \in OutcomesInChannel(i) : outcomesQ[k].kind = emitted[i]
           /\ (itemPhase[i] = "ok") <=> (emitted[i] = "Success")
      /\ itemPhase[i] \notin {"ok", "err"} =>
           (OutcomesSent(i) = 0 /\ emitted[i] = "none")

C39_Witness_SuccessFailAndPrepareFailReturned ==
  /\ pc = "stream"
  /\ CurDesc.itemFn = "apply"
  /\ \E i, j, k \in Items :
       /\ itemPhase[i] = "ok" /\ emitted[i] = "Success" /\ i \in collated
       /\ itemPhase[j] = "err" /\ emitted[j] = "Fail" /\ OutcomesInChannel(j) # {}
       /\ itemPhase[k] = "err" /\ emitted[k] = "PrepareFail"


====
